---------------------------- MODULE Spec2Model ----------------------------
(***************************************************************************)
(* A model of the knowledge-graph construction and retrieval core of the   *)
(* studying_helper repository: the sub-graph filter                        *)
(* (get_questions_orgchart.py), the path-id traversal and org-chart merge  *)
(* (get_orgchart.py, get_segment.py), the page-offset resolution           *)
(* (get_catalog.py) and the knowledge-point index build (embedding.py).    *)
(*                                                                         *)
(* Every component has its own variables and its own specification; the    *)
(* variables of the other components keep their idle values.  Python       *)
(* strings are TLA+ strings, Python's None is the reserved string None,    *)
(* Python lists are sequences, Python sets are sets.                       *)
(***************************************************************************)
EXTENDS Integers, Sequences, FiniteSets, TLC

VARIABLES
    \* ---- get_questions_orgchart.filter_textbook_orgchart ----
    all_textbook_nodes,        \* argument: the flat node list
    target_kp_names,           \* argument: the set of names to match
    set_order,                 \* the order in which this process iterates a set of ids
    final_filtered_node_list,  \* the returned list
    filter_pc,                 \* "call" before the call, "returned" after it
    \* ---- get_orgchart.main: traverse_and_process_leaves, merge_all_orgchart_data ----
    catalog_data,              \* the outline: one record per node, children by parent link
    llm_replies,               \* what the LLM call returns for each outline node, if asked
    orgchart_chapter_dir,      \* the per-leaf sub-structure files: file name -> content
    textbook_orgchart,         \* the merged node list as written to the output file
    orgchart_pc,               \* position of main: "start", "traversed", "merged", ...
    \* ---- get_catalog.run_catalog_extraction: apply_offset_and_save ----
    initial_structure,         \* the outline parsed from the LLM output
    catalog_json,              \* the outline as saved to catalog.json
    offset_pc,                 \* "start", then the branch apply_offset_and_save took
    \* ---- embedding.run_embedding_generation ----
    catalog_with_segments,     \* the input file catalog_with_segments.json
    knowledge_points_texts,    \* the texts extracted by the last run
    faiss_index_file,          \* the persisted index knowledge_points.index
    mapping_file,              \* the persisted list knowledge_points.mapping.json
    embed_fault,               \* the failure that struck the last run
    embed_pc,                  \* where the last run ended; "idle" before a run
    \* ---- search_similar.find_similar_knowledge_points, search_in_faiss_index ----
    question_str,              \* argument: the query
    top_k_to_search,           \* argument: the number of neighbours wanted
    faiss_index_obj,           \* the loaded index: its vectors, in id order
    id_to_text_mapping_list,   \* the loaded mapping
    faiss_search_k,            \* the k the index was asked for, NotSearched if it was not
    similar_results,           \* the returned list
    search_pc,                 \* "call" before the call, then where the call returned
    \* ---- app.send_chat_message ----
    user_message_content,      \* the message of the request
    related_files,             \* the files the relatedFileIds of the request name
    all_knowledge_points,      \* the knowledge points collected from these files
    scored_chunks,             \* the scored knowledge points, sorted
    relevant_chunks_for_llm,   \* the chunks selected for the context
    citations_for_response,    \* the citations prepared for the answer
    context_str,               \* the context written for the model
    final_ai_response_json,    \* the aiResponse of the reply
    chat_pc,                   \* "call" before the request, then how it ended
    \* ---- app.run_processing_pipeline_in_thread ----
    scripts_present,           \* the scripts whose file exists
    script_index,              \* the place of the loop in scripts_to_run
    running_scripts,           \* the scripts whose process runs
    started_scripts,           \* the scripts whose process was started, in this order
    script_results,            \* how each script ended
    text_files_exist,          \* the OCR step left text files
    catalog_exists,            \* the catalog step left catalog.json
    pipeline_pc,               \* "loop", "in_subprocess_run", "finished"
    \* ---- app.upload_file ----
    uploads,                   \* the requests: where each is, and its local variables
    upload_folder,             \* the directories in UPLOAD_FOLDER
    launched_pipelines,        \* the arguments of the pipeline threads started
    \* ---- get_segment.process_chapters_for_segmentation ----
    catalog_before,            \* catalog_data["chapters"] as loaded from catalog.json
    leaf_outcomes,             \* what the text lookup and the LLM give for each node
    catalog_after,             \* catalog_data["chapters"] as the traversal left it
    visited_nodes,             \* the nodes the traversal reached
    segment_pc,                \* "call", then "returned" or "raised"
    \* ---- get_questions_orgchart.filter_textbook_orgchart, loop by loop ----
    walk_nodes,                \* argument: the flat node list
    walk_targets,              \* argument: the set of names to match
    walk_order,                \* the order in which this process iterates a set of ids
    walk_descendant_q,         \* descendant_q
    walk_kept_node_ids,        \* kept_node_ids
    walk_appended,             \* the ids appended to descendant_q by the loop, in order
    walk_to_trace,             \* the rest of nodes_to_trace_ancestors_for
    walk_current_trace_id,     \* current_trace_id
    walk_pc,                   \* "call", "descendants", "for", "while", "returned"
    \* ---- segment.py: the stitching loop ----
    all_batch_responses,       \* the recorded batch results
    stitch_index,              \* the number of batch results stitched
    final_stitched_csv_rows,   \* final_stitched_csv_rows
    previous_incomplete_row_data,\* the pending row, NoRow when there is none
    stitch_pc,                 \* "loop", "stitched" or "raised"
    \* ---- segment.py: the batch loop ----
    TOTAL_PAGES,               \* the number of pages
    PAGES_PER_BATCH,           \* the number of pages of a batch
    current_page,              \* current_page
    attempted_batches,         \* the page ranges of the batches begun so far
    recorded_batches,          \* the page ranges in all_batch_responses
    batch_pc,                  \* "loop" or "done"
    \* ---- app.py: the chat store ----
    mock_chat_history,         \* mock_chat_history: the entries, newest chat first
    mock_chat_messages,        \* mock_chat_messages: chat id -> messages
    server_time_ms,            \* int(time.time() * 1000)
    chat_response,             \* the response to the last request
    requests_handled           \* the number of requests handled

filterVars == <<all_textbook_nodes, target_kp_names, set_order,
                final_filtered_node_list, filter_pc>>

orgchartVars == <<catalog_data, llm_replies, orgchart_chapter_dir,
                  textbook_orgchart, orgchart_pc>>

offsetVars == <<initial_structure, catalog_json, offset_pc>>

embedVars == <<catalog_with_segments, knowledge_points_texts, faiss_index_file,
               mapping_file, embed_fault, embed_pc>>

searchVars == <<question_str, top_k_to_search, faiss_index_obj, id_to_text_mapping_list,
                faiss_search_k, similar_results, search_pc>>

chatVars == <<user_message_content, related_files, all_knowledge_points,
              scored_chunks, relevant_chunks_for_llm, citations_for_response,
              context_str, final_ai_response_json, chat_pc>>

pipelineVars == <<scripts_present, script_index, running_scripts,
                  started_scripts, script_results, text_files_exist,
                  catalog_exists, pipeline_pc>>

uploadVars == <<uploads, upload_folder, launched_pipelines>>

segmentVars == <<catalog_before, leaf_outcomes, catalog_after, visited_nodes,
                 segment_pc>>

walkVars == <<walk_nodes, walk_targets, walk_order, walk_descendant_q,
              walk_kept_node_ids, walk_appended, walk_to_trace,
              walk_current_trace_id, walk_pc>>

stitchVars == <<all_batch_responses, stitch_index, final_stitched_csv_rows,
                previous_incomplete_row_data, stitch_pc>>

batchVars == <<TOTAL_PAGES, PAGES_PER_BATCH, current_page, attempted_batches,
               recorded_batches, batch_pc>>

storeVars == <<mock_chat_history, mock_chat_messages, server_time_ms,
               chat_response, requests_handled>>

vars == <<filterVars, orgchartVars, offsetVars, embedVars, searchVars,
          chatVars, pipelineVars, uploadVars, segmentVars, walkVars,
          stitchVars, batchVars, storeVars>>

\* what the steps of one component leave alone
notFilterVars == <<orgchartVars, offsetVars, embedVars, searchVars, chatVars,
                   pipelineVars, uploadVars, segmentVars, walkVars,
                   stitchVars, batchVars, storeVars>>
notOrgchartVars == <<filterVars, offsetVars, embedVars, searchVars, chatVars,
                     pipelineVars, uploadVars, segmentVars, walkVars,
                     stitchVars, batchVars, storeVars>>
notOffsetVars == <<filterVars, orgchartVars, embedVars, searchVars, chatVars,
                   pipelineVars, uploadVars, segmentVars, walkVars,
                   stitchVars, batchVars, storeVars>>
notEmbedVars == <<filterVars, orgchartVars, offsetVars, searchVars, chatVars,
                  pipelineVars, uploadVars, segmentVars, walkVars, stitchVars,
                  batchVars, storeVars>>
notSearchVars == <<filterVars, orgchartVars, offsetVars, embedVars, chatVars,
                   pipelineVars, uploadVars, segmentVars, walkVars,
                   stitchVars, batchVars, storeVars>>
notChatVars == <<filterVars, orgchartVars, offsetVars, embedVars, searchVars,
                 pipelineVars, uploadVars, segmentVars, walkVars, stitchVars,
                 batchVars, storeVars>>
notPipelineVars == <<filterVars, orgchartVars, offsetVars, embedVars,
                     searchVars, chatVars, uploadVars, segmentVars, walkVars,
                     stitchVars, batchVars, storeVars>>
notUploadVars == <<filterVars, orgchartVars, offsetVars, embedVars,
                   searchVars, chatVars, pipelineVars, segmentVars, walkVars,
                   stitchVars, batchVars, storeVars>>
notSegmentVars == <<filterVars, orgchartVars, offsetVars, embedVars,
                    searchVars, chatVars, pipelineVars, uploadVars, walkVars,
                    stitchVars, batchVars, storeVars>>
notWalkVars == <<filterVars, orgchartVars, offsetVars, embedVars, searchVars,
                 chatVars, pipelineVars, uploadVars, segmentVars, stitchVars,
                 batchVars, storeVars>>
notStitchVars == <<filterVars, orgchartVars, offsetVars, embedVars,
                   searchVars, chatVars, pipelineVars, uploadVars,
                   segmentVars, walkVars, batchVars, storeVars>>
notBatchVars == <<filterVars, orgchartVars, offsetVars, embedVars, searchVars,
                  chatVars, pipelineVars, uploadVars, segmentVars, walkVars,
                  stitchVars, storeVars>>
notStoreVars == <<filterVars, orgchartVars, offsetVars, embedVars, searchVars,
                  chatVars, pipelineVars, uploadVars, segmentVars, walkVars,
                  stitchVars, batchVars>>

-----------------------------------------------------------------------------
(* Python values *)

\* Python's None.  No string of the inputs equals it.
None == "<None>"

UPPERCASE == "ABCDEFGHIJKLMNOPQRSTUVWXYZ"
LOWERCASE == "abcdefghijklmnopqrstuvwxyz"

\* the lower-case letter of every upper-case letter
CaseMap ==
    [ c \in { SubSeq(UPPERCASE, i, i) : i \in 1..26 } |->
        LET i == CHOOSE j \in 1..26 : SubSeq(UPPERCASE, j, j) = c
        IN  SubSeq(LOWERCASE, i, i) ]

\* str.lower() on one character
LowerChar(c) == IF c \in DOMAIN CaseMap THEN CaseMap[c] ELSE c

\* str(x).lower(); str(None) is "None", which lowers to "none"
RECURSIVE lower(_)
lower(s) ==
    IF s = None THEN "none"
    ELSE IF Len(s) = 0 THEN ""
    ELSE LowerChar(SubSeq(s, 1, 1)) \o lower(SubSeq(s, 2, Len(s)))

\* Python truthiness of an optional string: None and "" are falsy
Truthy(s) == s # None /\ s # ""

\* the elements of sequence s, as a set
Range(s) == { s[i] : i \in DOMAIN s }

\* list(a_set): the elements of S in this process's set iteration order
SetToList(S, order) == SelectSeq(order, LAMBDA x : x \in S)

-----------------------------------------------------------------------------
(* get_questions_orgchart.py: filter_textbook_orgchart *)

\* line 131: pid is None or pid == "" or str(pid).lower() == "null"
IsRootPid(pid) == pid = None \/ pid = "" \/ lower(pid) = "null"

\* line 122: {node['id']: node for node in all_textbook_nodes}; a later node
\* with the same id replaces an earlier one
node_map(nodes) ==
    [ id \in { nodes[k].id : k \in DOMAIN nodes } |->
        LET last == CHOOSE k \in DOMAIN nodes :
                        /\ nodes[k].id = id
                        /\ \A j \in DOMAIN nodes : nodes[j].id = id => j <= k
        IN  nodes[last] ]

\* lines 127-136: the ids of the nodes recognised as roots, in list order
root_node_ids_found(nodes) ==
    LET roots == SelectSeq(nodes, LAMBDA n : IsRootPid(n.pid))
    IN  [ k \in DOMAIN roots |-> roots[k].id ]

\* lines 127-136: parent_to_children_map[p], the ids of the non-root nodes
\* whose pid is p, in list order (the empty list when p is no key)
parent_to_children_map(nodes, p) ==
    LET ch == SelectSeq(nodes, LAMBDA n : ~IsRootPid(n.pid) /\ n.pid = p)
    IN  [ k \in DOMAIN ch |-> ch[k].id ]

\* lines 154-158: the ids whose node (in node_map) has a name in the target set
initially_matched_ids_by_name(nodes, targets) ==
    LET nm == node_map(nodes)
    IN  { id \in DOMAIN nm : nm[id].name \in targets }

\* lines 171-174: the for loop over the children of the dequeued node
RECURSIVE ExpandChildren(_, _, _)
ExpandChildren(children, kept, q) ==
    IF children = <<>> THEN [kept |-> kept, q |-> q]
    ELSE LET child_id == Head(children)
         IN  IF child_id \notin kept
             THEN ExpandChildren(Tail(children), kept \cup {child_id}, Append(q, child_id))
             ELSE ExpandChildren(Tail(children), kept, q)

\* DescendantLoop with line 174 left out: the children of a matched node are kept but
\* not enqueued, so deeper descendants are lost
RECURSIVE DescendantLoopNoEnqueue(_, _, _)
DescendantLoopNoEnqueue(nodes, descendant_q, kept) ==
    IF descendant_q = <<>> THEN kept
    ELSE LET r == ExpandChildren(parent_to_children_map(nodes, Head(descendant_q)),
                                 kept, <<>>)
         IN  DescendantLoopNoEnqueue(nodes, Tail(descendant_q), r.kept)

\* lines 166-174: while descendant_q: popleft, expand
RECURSIVE DescendantLoop(_, _, _)
DescendantLoop(nodes, descendant_q, kept) ==
    IF descendant_q = <<>> THEN kept
    ELSE LET r == ExpandChildren(parent_to_children_map(nodes, Head(descendant_q)),
                                 kept, Tail(descendant_q))
         IN  DescendantLoop(nodes, r.q, r.kept)

\* lines 183-194 with line 189 left out: the parent is kept but the walk does
\* not go on from it
TraceUpOneStep(nm, current_trace_id, kept) ==
    IF current_trace_id \notin DOMAIN nm THEN kept
    ELSE LET parent_id == nm[current_trace_id].pid
         IN  IF /\ Truthy(parent_id)
                /\ lower(parent_id) # "null"
                /\ parent_id # ""
                /\ parent_id \notin kept
                /\ parent_id \in DOMAIN nm
             THEN kept \cup {parent_id}
             ELSE kept

\* lines 183-194: the while loop of one upward trace
RECURSIVE TraceUp(_, _, _)
TraceUp(nm, current_trace_id, kept) ==
    IF current_trace_id \notin DOMAIN nm THEN kept
    ELSE LET parent_id == nm[current_trace_id].pid
         IN  IF /\ Truthy(parent_id)
                /\ lower(parent_id) # "null"
                /\ parent_id # ""
                /\ parent_id \notin kept
             THEN IF parent_id \in DOMAIN nm
                  THEN TraceUp(nm, parent_id, kept \cup {parent_id})
                  ELSE kept
             ELSE kept

\* lines 180-194: for node_id_to_trace_up in nodes_to_trace_ancestors_for
RECURSIVE TraceAll(_, _, _)
TraceAll(nm, nodes_to_trace_ancestors_for, kept) ==
    IF nodes_to_trace_ancestors_for = <<>> THEN kept
    ELSE TraceAll(nm, Tail(nodes_to_trace_ancestors_for),
                  TraceUp(nm, Head(nodes_to_trace_ancestors_for), kept))

\* lines 147-196: the ids kept after the roots, the name matches, the
\* descendants of the matches and the ancestors of all of these
kept_node_ids(nodes, targets, order) ==
    LET nm       == node_map(nodes)
        roots    == Range(root_node_ids_found(nodes))
        matched  == initially_matched_ids_by_name(nodes, targets)
        afterBfs == DescendantLoop(nodes, SetToList(matched, order), roots \cup matched)
    IN  TraceAll(nm, SetToList(afterBfs, order), afterBfs)

\* lines 109-202
filter_textbook_orgchart(nodes, targets, order) ==
    IF nodes = <<>> THEN <<>>
    ELSE LET nm   == node_map(nodes)
             kept == SetToList(kept_node_ids(nodes, targets, order), order)
             inMap == SelectSeq(kept, LAMBDA id : id \in DOMAIN nm)
         IN  [ k \in DOMAIN inMap |-> nm[inMap[k]] ]


-----------------------------------------------------------------------------
(* The inputs of filter_textbook_orgchart *)

\* the largest node list given to the filter
MaxNodes == 4

\* the id of the k-th node of a list with distinct ids
NodeId(k) == "n" \o ToString(k)

\* a pid that names no node of the list
DanglingPid == "ghost"

\* the four spellings of "no parent" that the node lists carry; the k-th node
\* of a list, when it is a root, uses the k-th spelling (cyclically)
RootPidForms == << None, "", "null", "NULL" >>
RootPidAt(k) == RootPidForms[((k - 1) % 4) + 1]

NodeNames == { "kpA", "kpB" }
TargetSets == { {"kpA", "Newton's Laws"} }

\* the pids the k-th node of an n-node list may carry: it is a root, names a
\* missing parent or names an earlier node; the first node may also name
\* itself or the last node, so that pid links may form cycles
PidChoices(k, n) ==
    {RootPidAt(k), DanglingPid}
        \cup { NodeId(j) : j \in 1..(k - 1) }
        \cup (IF k = 1 THEN {NodeId(1), NodeId(n)} ELSE {})

\* the node lists of the first k nodes of an n-node list with distinct ids
RECURSIVE DistinctIdPrefixes(_, _)
DistinctIdPrefixes(k, n) ==
    IF k = 0 THEN { <<>> }
    ELSE { Append(nodes, [id |-> NodeId(k), pid |-> pid, name |-> name]) :
             nodes \in DistinctIdPrefixes(k - 1, n),
             pid \in PidChoices(k, n),
             name \in NodeNames }

DistinctIdLists(n) == DistinctIdPrefixes(n, n)

\* node lists of three nodes in which two nodes share an id
SharedIdLists ==
    { nodes \in [ 1..3 -> [id : {"n1", "n2"}, pid : {None, "n1", "n2"}, name : NodeNames] ] :
        nodes[1].id = "n1" }

\* the set iteration orders of the model: list order and its reverse
SetOrders(n) ==
    { [ k \in 1..n |-> NodeId(k) ], [ k \in 1..n |-> NodeId(n + 1 - k) ] }

FilterInit ==
    /\ \E n \in 0..MaxNodes :
          /\ all_textbook_nodes \in DistinctIdLists(n) \cup (IF n = 3 THEN SharedIdLists ELSE {})
          /\ set_order \in SetOrders(n)
    /\ target_kp_names \in TargetSets
    /\ final_filtered_node_list = <<>>
    /\ filter_pc = "call"

\* one call of filter_textbook_orgchart
FilterTextbookOrgchart ==
    /\ filter_pc = "call"
    /\ final_filtered_node_list' =
           filter_textbook_orgchart(all_textbook_nodes, target_kp_names, set_order)
    /\ filter_pc' = "returned"
    /\ UNCHANGED <<all_textbook_nodes, target_kp_names, set_order>>
    /\ UNCHANGED notFilterVars

-----------------------------------------------------------------------------
(* C1: the closure returned by filter_textbook_orgchart *)

\* whether the list gives every node an id of its own
DistinctIds(nodes) ==
    \A i, j \in DOMAIN nodes : nodes[i].id = nodes[j].id => i = j

\* a root as the claim words it: pid null, empty or the string "null"
\* (anyCase = FALSE), or with "null" in any letter case (anyCase = TRUE)
RootNode(n, anyCase) ==
    \/ n.pid = None
    \/ n.pid = ""
    \/ (IF anyCase THEN lower(n.pid) ELSE n.pid) = "null"

\* S and the ids of the nodes whose parent is in S, k times over
RECURSIVE WithDescendants(_, _, _, _)
WithDescendants(nodes, S, k, anyCase) ==
    IF k = 0 THEN S
    ELSE WithDescendants(nodes,
             S \cup { n.id : n \in { m \in Range(nodes) :
                                       ~RootNode(m, anyCase) /\ m.pid \in S } },
             k - 1, anyCase)

\* S and the ids of the parents (present in the list) of the nodes in S, k times over
RECURSIVE WithAncestors(_, _, _, _)
WithAncestors(nodes, S, k, anyCase) ==
    IF k = 0 THEN S
    ELSE WithAncestors(nodes,
             S \cup { n.pid : n \in { m \in Range(nodes) :
                                        /\ m.id \in S
                                        /\ ~RootNode(m, anyCase)
                                        /\ \E p \in Range(nodes) : p.id = m.pid } },
             k - 1, anyCase)

\* roots, name matches, descendants of the matches, ancestors of all of these
ClosureIds(nodes, targets, anyCase) ==
    LET roots   == { n.id : n \in { m \in Range(nodes) : RootNode(m, anyCase) } }
        matched == { n.id : n \in { m \in Range(nodes) : m.name \in targets } }
        down    == WithDescendants(nodes, matched, Len(nodes), anyCase)
    IN  WithAncestors(nodes, roots \cup matched \cup down, Len(nodes), anyCase)

\* the returned list holds nodes of the input, one for each id in ids and
\* none for any other id
ReturnsExactly(ids) ==
    /\ { n.id : n \in Range(final_filtered_node_list) } = ids
    /\ Range(final_filtered_node_list) \subseteq Range(all_textbook_nodes)
    /\ \A i, j \in DOMAIN final_filtered_node_list :
           final_filtered_node_list[i].id = final_filtered_node_list[j].id => i = j

-----------------------------------------------------------------------------
(* C23, C25: the order and the parent links of the returned list *)

\* the place of node n in the list nodes (its last occurrence)
InputPlace(nodes, n) ==
    CHOOSE k \in DOMAIN nodes :
        nodes[k] = n /\ \A j \in DOMAIN nodes : nodes[j] = n => j <= k

\* C23: the returned list keeps the retained nodes in the relative order they
\* have in the input list.
C23_OutputKeepsInputOrder ==
    filter_pc = "returned" =>
        \A i, j \in DOMAIN final_filtered_node_list :
            i < j => InputPlace(all_textbook_nodes, final_filtered_node_list[i])
                       < InputPlace(all_textbook_nodes, final_filtered_node_list[j])

\* the ids of the returned nodes
ReturnedIds == { n.id : n \in Range(final_filtered_node_list) }

\* C25: every returned non-root node whose pid names a node of the input has
\* that parent returned as well, and a node matched by name whose pid names no
\* node of the input is returned although its upward walk stops at once.
C25_ClosedUnderParentLinks ==
    filter_pc = "returned" =>
        /\ \A n \in Range(final_filtered_node_list) :
              (~IsRootPid(n.pid) /\ n.pid \in DOMAIN node_map(all_textbook_nodes))
                  => n.pid \in ReturnedIds
        /\ \A id \in DOMAIN node_map(all_textbook_nodes) :
              LET n == node_map(all_textbook_nodes)[id]
              IN  (n.name \in target_kp_names /\ n.pid = DanglingPid)
                      => n \in Range(final_filtered_node_list)

\* C25 witness: a returned call on the chain n1 <- n2 <- n3 <- n4 whose top n1
\* names a missing parent and is no root, where only n4's name is a target:
\* the three ancestors are returned because the walk from n4 went up to n1.
C25_Witness ==
    /\ filter_pc = "returned"
    /\ Len(all_textbook_nodes) = 4
    /\ all_textbook_nodes[1].pid = DanglingPid
    /\ \A k \in 2..4 : all_textbook_nodes[k].pid = NodeId(k - 1)
    /\ \A k \in 1..3 : all_textbook_nodes[k].name \notin target_kp_names
    /\ all_textbook_nodes[4].name \in target_kp_names
    /\ ReturnedIds = { NodeId(k) : k \in 1..4 }

-----------------------------------------------------------------------------
(* get_orgchart.py: path ids, per-leaf sub-structures and the merge *)

\* a key that a JSON object does not have
Missing == "<Missing>"

\* a sub-structure file content or an LLM reply: a JSON list of internal nodes
ListOf(nodes) == [kind |-> "list", nodes |-> nodes]

\* the content of a sub-structure file that holds JSON other than a list
NotAList == [kind |-> "not_a_list", nodes |-> <<>>]

\* the LLM call produced no node list (API failure, unparsable output), or
\* the leaf has no name or no text content: nothing to save
NoReply == [kind |-> "none", nodes |-> <<>>]

\* <<1, ..., n>>
Indices(n) == [ i \in 1..n |-> i ]

\* node_data["children"]: the outline nodes whose parent is node k, in list
\* order (k = 0: catalog_data["chapters"])
children_of(cat, k) == SelectSeq(Indices(Len(cat)), LAMBDA j : cat[j].parent = k)

\* str.replace(old, new) for one-character old
RECURSIVE replace(_, _, _)
replace(s, old, new) ==
    IF Len(s) = 0 THEN ""
    ELSE (IF SubSeq(s, 1, 1) = old THEN new ELSE SubSeq(s, 1, 1))
             \o replace(SubSeq(s, 2, Len(s)), old, new)

\* lines 255 and 355: f"{path_id.replace('.', '_')}.orgchart.json"
orgchart_filename(path_id) == replace(path_id, ".", "_") \o ".orgchart.json"

\* lines 289-291: the path id of the i-th node (1-based) of a children list;
\* the index field holds str(index), or None when the node has no index
current_generated_path_id(parent_path_id, node_data, i) ==
    LET current_index_str ==
            IF node_data.index # None THEN node_data.index ELSE ToString(i)
    IN  parent_path_id \o (IF parent_path_id # "" THEN "." ELSE "") \o current_index_str

\* lines 238-274: the sub-structure files after one leaf was processed
process_leaf_node_for_orgchart(dir, generated_path_id, reply) ==
    LET output_filename == orgchart_filename(generated_path_id)
    IN  IF output_filename \in DOMAIN dir THEN dir           \* lines 256-258
        ELSE IF reply.kind # "list" \/ reply.nodes = <<>> THEN dir   \* lines 263-265, 271-274
        ELSE dir @@ (output_filename :> reply)                \* line 272

\* lines 277-316: the loop over nodes[i..], st = [cat, dir]
RECURSIVE traverse_and_process_leaves(_, _, _, _, _)
traverse_and_process_leaves(st, nodes, i, parent_path_id, replies) ==
    IF i > Len(nodes) THEN st
    ELSE LET k    == nodes[i]
             id   == current_generated_path_id(parent_path_id, st.cat[k], i)
             cat1 == [st.cat EXCEPT ![k].generated_path_id = id]
             dir1 == IF cat1[k].type = "leaf"
                     THEN process_leaf_node_for_orgchart(st.dir, id, replies[k])
                     ELSE st.dir
             st1  == [cat |-> cat1, dir |-> dir1]
             st2  == IF children_of(cat1, k) # <<>>
                     THEN traverse_and_process_leaves(st1, children_of(cat1, k), 1, id, replies)
                     ELSE st1
         IN  traverse_and_process_leaves(st2, nodes, i + 1, parent_path_id, replies)

\* line 329
textbook_root_node_id == "TEXTBOOK_ROOT"

\* lines 363-379: the GraphNode of one internal node of a leaf
internal_graph_node(current_node_orgchart_id, internal_node) ==
    LET internal_node_id_str ==
            IF internal_node.id = Missing THEN "unknown_internal_id"
            ELSE IF internal_node.id = None THEN "None"
            ELSE internal_node.id
        internal_node_pid_str ==
            IF internal_node.pid = Missing THEN None ELSE internal_node.pid
        new_internal_id == current_node_orgchart_id \o "__" \o internal_node_id_str
        new_internal_pid ==
            IF Truthy(internal_node_pid_str)
            THEN current_node_orgchart_id \o "__" \o internal_node_pid_str
            ELSE current_node_orgchart_id
    IN  [id |-> new_internal_id, pid |-> new_internal_pid, isInternal |-> TRUE]

\* lines 354-385: the GraphNodes of the internal nodes of one leaf
internal_graph_nodes(dir, current_node_orgchart_id) ==
    LET chapter_orgchart_filename == orgchart_filename(current_node_orgchart_id)
    IN  IF chapter_orgchart_filename \notin DOMAIN dir THEN <<>>
        ELSE LET chapter_internal_nodes == dir[chapter_orgchart_filename]
             IN  IF chapter_internal_nodes.kind # "list" THEN <<>>
                 ELSE [ j \in DOMAIN chapter_internal_nodes.nodes |->
                          internal_graph_node(current_node_orgchart_id,
                                              chapter_internal_nodes.nodes[j]) ]

\* lines 337-388: the loop over catalog_nodes[i..], out = final_orgchart_nodes
RECURSIVE process_and_merge_recursive(_, _, _, _, _, _)
process_and_merge_recursive(out, cat, dir, catalog_nodes, i, parent_orgchart_id) ==
    IF i > Len(catalog_nodes) THEN out
    ELSE LET cat_node == cat[catalog_nodes[i]]
             current_node_orgchart_id == cat_node.generated_path_id
         IN  IF ~Truthy(current_node_orgchart_id)
             THEN process_and_merge_recursive(out, cat, dir, catalog_nodes, i + 1,
                                              parent_orgchart_id)
             ELSE LET out1 == Append(out, [id |-> current_node_orgchart_id,
                                           pid |-> parent_orgchart_id,
                                           isInternal |-> FALSE])
                      out2 == IF cat_node.type = "leaf"
                              THEN out1 \o internal_graph_nodes(dir, current_node_orgchart_id)
                              ELSE out1
                      out3 == IF children_of(cat, catalog_nodes[i]) # <<>>
                              THEN process_and_merge_recursive(out2, cat, dir,
                                       children_of(cat, catalog_nodes[i]), 1,
                                       current_node_orgchart_id)
                              ELSE out2
                  IN  process_and_merge_recursive(out3, cat, dir, catalog_nodes, i + 1,
                                                  parent_orgchart_id)

\* lines 327-391 with the root appended after the outline instead of before it
final_orgchart_nodes_root_last(cat, dir) ==
    Append(process_and_merge_recursive(<<>>, cat, dir, children_of(cat, 0), 1,
                                       textbook_root_node_id),
           [id |-> textbook_root_node_id, pid |-> None, isInternal |-> FALSE])

\* lines 327-391: final_orgchart_nodes, the synthetic root first
final_orgchart_nodes(cat, dir) ==
    process_and_merge_recursive(
        << [id |-> textbook_root_node_id, pid |-> None, isInternal |-> FALSE] >>,
        cat, dir, children_of(cat, 0), 1, textbook_root_node_id)

-----------------------------------------------------------------------------
(* The inputs and steps of get_orgchart.main *)

\* the largest outline, in nodes
MaxOutline == 3

\* the longest node list an LLM reply holds
MaxInternal == 2

\* str(index) of an outline node's index field, None when it has none
IndexValues == { None, "1", "2" }

OutlineNode(parent, type, index) ==
    [parent |-> parent, type |-> type, index |-> index, generated_path_id |-> None]

\* the outlines of n nodes: a node's parent is an earlier node, or 0 at top level
RECURSIVE OutlineTrees(_)
OutlineTrees(n) ==
    IF n = 0 THEN { <<>> }
    ELSE { Append(cat, OutlineNode(parent, type, index)) :
             cat \in OutlineTrees(n - 1),
             parent \in 0..(n - 1),
             type \in {"tree", "leaf"},
             index \in IndexValues }

\* the outlines with two leaves on which the LLM replies are varied: two
\* top-level leaves, two leaves under one chapter, and two top-level leaves
\* that carry the same explicit index
TwoLeafOutlines ==
    { << OutlineNode(0, "leaf", None), OutlineNode(0, "leaf", None) >>,
      << OutlineNode(0, "tree", None), OutlineNode(1, "leaf", None),
         OutlineNode(1, "leaf", None) >>,
      << OutlineNode(0, "leaf", "1"), OutlineNode(0, "leaf", "1") >> }

\* the internal nodes a reply may hold: a root, a child of "root", a node
\* without id, and a node "root" with an empty pid
InternalNodeChoices ==
    { [id |-> "root", pid |-> None], [id |-> "a", pid |-> "root"],
      [id |-> Missing, pid |-> Missing], [id |-> "root", pid |-> ""] }

RECURSIVE InternalLists(_)
InternalLists(n) ==
    IF n = 0 THEN { <<>> }
    ELSE { Append(l, x) : l \in InternalLists(n - 1), x \in InternalNodeChoices }

\* what the LLM may return for a leaf
LeafReplies ==
    { NoReply } \cup { ListOf(l) : l \in UNION { InternalLists(n) : n \in 0..MaxInternal } }

OrgchartInit ==
    /\ \/ /\ catalog_data \in UNION { OutlineTrees(n) : n \in 0..MaxOutline }
          /\ llm_replies = [ k \in DOMAIN catalog_data |-> NoReply ]
       \/ /\ catalog_data \in TwoLeafOutlines
          /\ llm_replies \in
               { r \in [ DOMAIN catalog_data -> LeafReplies ] :
                   \A k \in DOMAIN catalog_data :
                       catalog_data[k].type # "leaf" => r[k] = NoReply }
    /\ orgchart_chapter_dir = <<>>
    /\ textbook_orgchart = <<>>
    /\ orgchart_pc = "start"

\* main, lines 452-466: step 1, or the early return when there are no chapters
TraverseAndProcessLeaves ==
    /\ orgchart_pc = "start"
    /\ IF children_of(catalog_data, 0) = <<>>
       THEN /\ orgchart_pc' = "no_chapters"
            /\ UNCHANGED <<catalog_data, orgchart_chapter_dir>>
       ELSE LET st == traverse_and_process_leaves(
                          [cat |-> catalog_data, dir |-> orgchart_chapter_dir],
                          children_of(catalog_data, 0), 1, "", llm_replies)
            IN  /\ catalog_data' = st.cat
                /\ orgchart_chapter_dir' = st.dir
                /\ orgchart_pc' = "traversed"
    /\ UNCHANGED <<llm_replies, textbook_orgchart>>
    /\ UNCHANGED notOrgchartVars

\* main, lines 468-478, and merge_all_orgchart_data, lines 319-404: the merged
\* list is written, or the write fails and the output file is left as it was
MergeAllOrgchartData ==
    /\ orgchart_pc = "traversed"
    /\ \/ /\ textbook_orgchart' = final_orgchart_nodes(catalog_data, orgchart_chapter_dir)
          /\ orgchart_pc' = "merged"
       \/ /\ orgchart_pc' = "merge_failed"
          /\ UNCHANGED textbook_orgchart
    /\ UNCHANGED <<catalog_data, llm_replies, orgchart_chapter_dir>>
    /\ UNCHANGED notOrgchartVars

-----------------------------------------------------------------------------
(* C2 - C5: the merged GraphNode list and the path ids *)

\* the ids of the merged list, as a set
MergedIds == { textbook_orgchart[i].id : i \in DOMAIN textbook_orgchart }

\* the leaves of the outline whose sub-structure file holds a node list
LeavesWithList ==
    { k \in DOMAIN catalog_data :
        /\ catalog_data[k].type = "leaf"
        /\ orgchart_filename(catalog_data[k].generated_path_id) \in DOMAIN orgchart_chapter_dir
        /\ orgchart_chapter_dir[orgchart_filename(catalog_data[k].generated_path_id)].kind = "list" }

\* the internal node list of leaf k
InternalNodesOf(k) ==
    orgchart_chapter_dir[orgchart_filename(catalog_data[k].generated_path_id)].nodes

\* an internal node carries a parent reference
HasPid(n) == n.pid # Missing /\ n.pid # None /\ n.pid # ""

\* the id an internal node carries, as text
LocalId(n) == IF n.id = Missing THEN "unknown_internal_id" ELSE n.id

\* C2: in the merged list every node other than a root has a pid that is the
\* id of some node of the list; a sub-structure with an internal node whose
\* pid names no internal node of its leaf is never emitted.
C2_ParentsResolve ==
    orgchart_pc = "merged" =>
        \A i \in DOMAIN textbook_orgchart :
            textbook_orgchart[i].pid # None => textbook_orgchart[i].pid \in MergedIds

\* C3: two different leaves whose node lists hold the same internal id yield
\* two distinct merged ids, one under each leaf's path id; an internal node
\* with a pid gets its own leaf's path id + "__" + that pid as parent, one
\* without a pid its own leaf's path id.
C3_NamespacedPerLeaf ==
    orgchart_pc = "merged" =>
        /\ \A a, b \in LeavesWithList :
              a # b =>
                \A i \in DOMAIN InternalNodesOf(a), j \in DOMAIN InternalNodesOf(b) :
                    LocalId(InternalNodesOf(a)[i]) = LocalId(InternalNodesOf(b)[j]) =>
                        LET ida == catalog_data[a].generated_path_id \o "__"
                                       \o LocalId(InternalNodesOf(a)[i])
                            idb == catalog_data[b].generated_path_id \o "__"
                                       \o LocalId(InternalNodesOf(b)[j])
                        IN  ida # idb /\ {ida, idb} \subseteq MergedIds
        /\ \A k \in LeavesWithList :
              \A i \in DOMAIN InternalNodesOf(k) :
                  LET n    == InternalNodesOf(k)[i]
                      leaf == catalog_data[k].generated_path_id
                  IN  \E m \in DOMAIN textbook_orgchart :
                        /\ textbook_orgchart[m].id = leaf \o "__" \o LocalId(n)
                        /\ textbook_orgchart[m].pid =
                               IF HasPid(n) THEN leaf \o "__" \o n.pid ELSE leaf

\* C4: the ids of the merged list are pairwise distinct.
C4_MergedIdsDistinct ==
    orgchart_pc = "merged" =>
        \A i, j \in DOMAIN textbook_orgchart :
            textbook_orgchart[i].id = textbook_orgchart[j].id => i = j

\* the 1-based position of outline node k among its siblings
SiblingPosition(k) ==
    Cardinality({ j \in 1..k : catalog_data[j].parent = catalog_data[k].parent })

\* C5: after the traversal the path ids are pairwise distinct and each is the
\* parent's path id, a dot (below top level) and the node's ordinal: its
\* explicit index if it has one, else its position among its siblings.
C5_PathIds ==
    orgchart_pc \in {"traversed", "merged", "merge_failed"} =>
        /\ \A k \in DOMAIN catalog_data :
              LET ordinal == IF catalog_data[k].index # None
                             THEN catalog_data[k].index
                             ELSE ToString(SiblingPosition(k))
                  prefix  == IF catalog_data[k].parent = 0 THEN ""
                             ELSE catalog_data[catalog_data[k].parent].generated_path_id \o "."
              IN  catalog_data[k].generated_path_id = prefix \o ordinal
        /\ \A j, k \in DOMAIN catalog_data :
              catalog_data[j].generated_path_id = catalog_data[k].generated_path_id => j = k

-----------------------------------------------------------------------------
(* C27: the order of the merged list *)

\* the outline nodes below the list nodes[i..], parents before children,
\* siblings in list order
RECURSIVE OutlineDepthFirst(_, _, _)
OutlineDepthFirst(cat, nodes, i) ==
    IF i > Len(nodes) THEN <<>>
    ELSE <<nodes[i]>> \o OutlineDepthFirst(cat, children_of(cat, nodes[i]), 1)
                      \o OutlineDepthFirst(cat, nodes, i + 1)

\* the merged nodes that stand for outline nodes, the synthetic root included
EmittedOutlineNodes == SelectSeq(textbook_orgchart, LAMBDA n : ~n.isInternal)

\* the synthetic root comes first and is the only node with a null pid
OneSyntheticRootFirst ==
    /\ textbook_orgchart # <<>>
    /\ textbook_orgchart[1] = [id |-> textbook_root_node_id, pid |-> None, isInternal |-> FALSE]
    /\ \A i \in DOMAIN textbook_orgchart : textbook_orgchart[i].pid = None => i = 1

\* after the root, the outline nodes are emitted once each, in depth-first
\* order, with their path id as id and the parent's path id (the root's id at
\* top level) as pid
EveryOutlineNodeEmittedOnce ==
    LET order == OutlineDepthFirst(catalog_data, children_of(catalog_data, 0), 1)
    IN  /\ Len(EmittedOutlineNodes) = Len(catalog_data) + 1
        /\ Len(order) = Len(catalog_data)
        /\ \A m \in DOMAIN order :
              /\ EmittedOutlineNodes[m + 1].id = catalog_data[order[m]].generated_path_id
              /\ EmittedOutlineNodes[m + 1].pid =
                     IF catalog_data[order[m]].parent = 0 THEN textbook_root_node_id
                     ELSE catalog_data[catalog_data[order[m]].parent].generated_path_id

\* node i of the merged list comes after a node whose id is its pid
AfterItsParent(i) ==
    \E j \in 1..(i - 1) : textbook_orgchart[j].id = textbook_orgchart[i].pid

-----------------------------------------------------------------------------
(* C24: a rebuild over the files an earlier build left *)

\* what the LLM returns for a leaf in the earlier and in the later build; the
\* reply follows the page text of the leaf, which may change between builds
RebuildReplies ==
    { NoReply,
      ListOf(<< [id |-> "root", pid |-> None] >>),
      ListOf(<< [id |-> "root", pid |-> None], [id |-> "a", pid |-> "root"] >>) }

\* the replies for the outline cat: leaves draw from RebuildReplies
RebuildRepliesFor(cat) ==
    { r \in [ DOMAIN cat -> RebuildReplies ] :
        \A k \in DOMAIN cat : cat[k].type # "leaf" => r[k] = NoReply }

\* main, lines 433 and 452-463: the sub-structure files a build of cat with
\* these replies leaves in a directory that was empty
files_of_build(cat, replies) ==
    traverse_and_process_leaves([cat |-> cat, dir |-> <<>>],
                                children_of(cat, 0), 1, "", replies).dir

\* main starts again for the same document: catalog.json is loaded anew, the
\* sub-structure directory is as the earlier build left it (line 433 creates
\* it only if it is missing)
RebuildInit ==
    /\ catalog_data \in TwoLeafOutlines
    /\ \E earlier \in RebuildRepliesFor(catalog_data) :
          orgchart_chapter_dir = files_of_build(catalog_data, earlier)
    /\ llm_replies \in RebuildRepliesFor(catalog_data)
    /\ textbook_orgchart = <<>>
    /\ orgchart_pc = "start"

\* C24: the merged graph of a rebuild is the one computed from the current
\* catalog and the current page text alone; no sub-structure file of the
\* earlier build is used for it.
C24_RebuildRecomputesEveryLeaf ==
    orgchart_pc = "merged" =>
        textbook_orgchart =
            final_orgchart_nodes(catalog_data, files_of_build(catalog_data, llm_replies))

-----------------------------------------------------------------------------
(* get_catalog.py: the page offset, and get_segment.py's reading of it *)

\* A JSON value of a page field: an integer, a float (val in tenths), the
\* float NaN, a string, null, or no such key.
PyInt(n) == [kind |-> "int", val |-> n]
PyFloat(tenths) == [kind |-> "float", val |-> tenths]
PyNaN == [kind |-> "nan", val |-> 0]
PyStr == [kind |-> "str", val |-> 0]
PyNull == [kind |-> "null", val |-> 0]
PyMissing == [kind |-> "missing", val |-> 0]

\* int(x) of a number: truncation towards zero
int(x) ==
    IF x.kind = "int" THEN x.val
    ELSE IF x.val >= 0 THEN x.val \div 10 ELSE -((-x.val) \div 10)

DIGITS == "0123456789"

\* \d
IsDigit(c) == \E d \in 1..10 : SubSeq(DIGITS, d, d) = c

\* int() of one digit
DigitValue(c) == (CHOOSE d \in 1..10 : SubSeq(DIGITS, d, d) = c) - 1

\* int() of a string of digits
RECURSIVE DigitsValue(_)
DigitsValue(s) ==
    IF Len(s) = 0 THEN 0
    ELSE 10 * DigitsValue(SubSeq(s, 1, Len(s) - 1)) + DigitValue(SubSeq(s, Len(s), Len(s)))

\* line 145: the value get_filename_number returns when the pattern does not
\* match (None); a match is a string of digits and never yields it
NoNumber == -1

\* line 144: r'page(\d{4})\.txt' with re.IGNORECASE matches at position i
PatternMatchesAt(filename, i) ==
    /\ i + 11 <= Len(filename)
    /\ lower(SubSeq(filename, i, i + 3)) = "page"
    /\ \A j \in (i + 4)..(i + 7) : IsDigit(SubSeq(filename, j, j))
    /\ lower(SubSeq(filename, i + 8, i + 11)) = ".txt"

\* lines 142-145: re.search takes the leftmost match
get_filename_number(filename) ==
    LET starts == { i \in 1..Len(filename) : PatternMatchesAt(filename, i) }
    IN  IF starts = {} THEN NoNumber
        ELSE LET i == CHOOSE m \in starts : \A n \in starts : m <= n
             IN  DigitsValue(SubSeq(filename, i + 4, i + 7))

\* zero padding of a digit string up to a width
RECURSIVE zero_pad(_, _)
zero_pad(s, width) == IF Len(s) >= width THEN s ELSE zero_pad("0" \o s, width)

\* the format spec 04d: width 4 including the sign
format_04d(number) ==
    IF number >= 0 THEN zero_pad(ToString(number), 4)
    ELSE "-" \o zero_pad(ToString(-number), 3)

format_filename_03d(number) ==
    "page" \o (IF number >= 0 THEN zero_pad(ToString(number), 3)
               ELSE "-" \o zero_pad(ToString(-number), 2)) \o ".txt"

\* lines 147-149: f"page{number:04d}.txt"
format_filename(number) == "page" \o format_04d(number) \o ".txt"

\* lines 131-140: the first leaf in depth-first order, 0 when there is none
RECURSIVE _find_first_leaf_recursive(_, _, _)
_find_first_leaf_recursive(data, nodes, i) ==
    IF i > Len(nodes) THEN 0
    ELSE LET node == data[nodes[i]]
             found == IF node.type = "tree"
                      THEN _find_first_leaf_recursive(data, children_of(data, nodes[i]), 1)
                      ELSE 0
         IN  IF node.type = "leaf" THEN nodes[i]
             ELSE IF found # 0 THEN found
             ELSE _find_first_leaf_recursive(data, nodes, i + 1)

\* lines 157-163 and 165-171: one page field resolved with the offset
resolved_page(page, offset) ==
    IF page.kind \in {"int", "float"} THEN format_filename(int(page) + offset)
    ELSE IF page.kind # "missing" THEN "INVALID_PAGE_FORMAT"
    ELSE "PAGE_NOT_SPECIFIED"

\* lines 156-175: one node; int(NaN) raises, and the handler marks both fields
apply_offset_to_node(node, offset) ==
    IF node.starting_page.kind = "nan" \/ node.ending_page.kind = "nan"
    THEN [node EXCEPT !.actual_starting_page = "OFFSET_ERROR",
                      !.actual_ending_page = "OFFSET_ERROR"]
    ELSE [node EXCEPT !.actual_starting_page = resolved_page(node.starting_page, offset),
                      !.actual_ending_page = resolved_page(node.ending_page, offset)]

\* lines 151-175 without the descent of lines 177-178
RECURSIVE _apply_offset_top_level(_, _, _, _)
_apply_offset_top_level(data, nodes, i, offset) ==
    IF i > Len(nodes) THEN data
    ELSE _apply_offset_top_level(
            [data EXCEPT ![nodes[i]] = apply_offset_to_node(data[nodes[i]], offset)],
            nodes, i + 1, offset)

\* lines 151-178: the loop over nodes[i..]
RECURSIVE _apply_offset_recursive(_, _, _, _)
_apply_offset_recursive(data, nodes, i, offset) ==
    IF i > Len(nodes) THEN data
    ELSE LET k     == nodes[i]
             data1 == [data EXCEPT ![k] = apply_offset_to_node(data[k], offset)]
             data2 == IF children_of(data1, k) # <<>>
                      THEN _apply_offset_recursive(data1, children_of(data1, k), 1, offset)
                      ELSE data1
         IN  _apply_offset_recursive(data2, nodes, i + 1, offset)

\* lines 181-235 without the save: the branch taken and the data handed to
\* save_json_data
apply_offset(data) ==
    LET first_leaf == _find_first_leaf_recursive(data, children_of(data, 0), 1)
    IN  IF first_leaf = 0 THEN [branch |-> "no_first_leaf", data |-> data]
        ELSE LET toc_start_page_val    == data[first_leaf].starting_page
                 actual_start_file_val == data[first_leaf].actual_starting_page
                 actual_start_number   == get_filename_number(actual_start_file_val)
                 offset == actual_start_number - toc_start_page_val.val
                 data1  == [data EXCEPT ![first_leaf].actual_starting_page = Missing]
             IN  IF toc_start_page_val.kind # "int"
                 THEN [branch |-> "page_invalid", data |-> data]
                 ELSE IF actual_start_file_val = Missing \/ ~Truthy(actual_start_file_val)
                 THEN [branch |-> "start_file_missing", data |-> data]
                 ELSE IF actual_start_number = NoNumber
                 THEN [branch |-> "parse_failed", data |-> data]
                 ELSE [branch |-> "applied",
                       data |-> _apply_offset_recursive(data1, children_of(data1, 0), 1, offset)]

\* get_segment.py lines 201-206: the values of a resolved page field for
\* which the leaf is skipped
is_invalid_range_value(file_name) ==
    \/ file_name = Missing
    \/ ~Truthy(file_name)
    \/ file_name \in {"UNKNOWN", "PAGE_NOT_SPECIFIED", "INVALID_PAGE_FORMAT", "OFFSET_ERROR"}

-----------------------------------------------------------------------------
(* The inputs and the step of get_catalog.run_catalog_extraction *)

\* the largest LLM outline, in nodes
MaxCatalog == 3

CatalogNode(parent, type, starting_page, ending_page, actual_starting_page) ==
    [parent |-> parent, type |-> type,
     starting_page |-> starting_page, ending_page |-> ending_page,
     actual_starting_page |-> actual_starting_page, actual_ending_page |-> Missing]

\* the claimed pages of a first leaf
ClaimedPages ==
    { PyInt(0), PyInt(5), PyInt(12), PyFloat(50), PyFloat(57), PyNaN, PyStr, PyNull,
      PyMissing }

\* the actual_starting_page values the LLM gives
ActualNames ==
    { "page0008.txt", "PAGE0008.TXT", "page0000.txt", "page9999.txt",
      "text/page0123.txt.bak", "page008.txt", "page00081.txt", "page 8", "",
      None, Missing }

\* outlines of general shape, one of whose nodes carries actual_starting_page
RECURSIVE CatalogTrees(_)
CatalogTrees(n) ==
    IF n = 0 THEN { <<>> }
    ELSE { Append(cat, CatalogNode(parent, type, starting_page, PyInt(13), Missing)) :
             cat \in CatalogTrees(n - 1),
             parent \in 0..(n - 1),
             type \in {"tree", "leaf"},
             starting_page \in {PyInt(5), PyMissing} }

\* a chapter with a first leaf and a second leaf, pages and file name varied
TwoLeafCatalogs ==
    { << CatalogNode(0, "tree", PyInt(5), PyInt(26), Missing),
         CatalogNode(1, "leaf", p, pe, a),
         CatalogNode(1, "leaf", q, e, Missing) >> :
        p \in ClaimedPages, pe \in {PyInt(13), PyNaN}, a \in ActualNames,
        q \in {PyInt(2), PyInt(14), PyStr}, e \in {PyInt(26), PyFloat(265), PyNaN} }

OffsetInit ==
    /\ \/ \E cat \in UNION { CatalogTrees(n) : n \in 0..MaxCatalog } :
            \E k \in 0..Len(cat) :
              initial_structure =
                  [ j \in DOMAIN cat |->
                      IF j = k THEN [cat[j] EXCEPT !.actual_starting_page = "page0008.txt"]
                      ELSE cat[j] ]
       \/ initial_structure \in TwoLeafCatalogs
    /\ catalog_json = <<>>
    /\ offset_pc = "start"

\* lines 181-235 and 238-254: the outline is resolved and saved, or the save
\* fails and catalog.json is left as it was
ApplyOffsetAndSave ==
    /\ offset_pc = "start"
    /\ LET r == apply_offset(initial_structure)
       IN  \/ /\ catalog_json' = r.data
              /\ offset_pc' = r.branch
           \/ /\ offset_pc' = "save_failed"
              /\ UNCHANGED catalog_json
    /\ UNCHANGED initial_structure
    /\ UNCHANGED notOffsetVars

-----------------------------------------------------------------------------
(* C6, C7: the offset *)

\* the first leaf of the LLM outline, 0 when there is none
FirstLeaf == _find_first_leaf_recursive(initial_structure, children_of(initial_structure, 0), 1)

\* the claimed start page of the first leaf is an integer
ClaimedPageIsInteger == initial_structure[FirstLeaf].starting_page.kind = "int"

\* the first leaf's actual start file names a page number
ActualFileNamesPage ==
    /\ initial_structure[FirstLeaf].actual_starting_page \notin {Missing, None}
    /\ get_filename_number(initial_structure[FirstLeaf].actual_starting_page) # NoNumber

\* catalog.json was written by this run
CatalogSaved == offset_pc \notin {"start", "save_failed", "idle"}

\* C6 as stated: with an integer claimed start page p of the first leaf and
\* an actual start file naming page a, the offset is a - p and the saved first
\* leaf's starting page is the file name of page p + (a - p), which parses
\* back to a.
C6_Original ==
    (CatalogSaved /\ FirstLeaf # 0 /\ ClaimedPageIsInteger /\ ActualFileNamesPage) =>
        LET p == initial_structure[FirstLeaf].starting_page.val
            a == get_filename_number(initial_structure[FirstLeaf].actual_starting_page)
        IN  /\ offset_pc = "applied"
            /\ catalog_json[FirstLeaf].actual_starting_page = format_filename(p + (a - p))
            /\ get_filename_number(catalog_json[FirstLeaf].actual_starting_page) = a

\* int() of the node's page values does not raise
PagesConvertible(node) == node.starting_page.kind # "nan" /\ node.ending_page.kind # "nan"

\* C6: with an integer claimed start page p of the first leaf and an actual
\* start file naming page a, the offset is a - p: every node whose starting
\* page is an integer q and whose page values convert is resolved to the file
\* name of page q + (a - p); if the first leaf's ending page converts, its
\* saved starting page is the file name of page p + (a - p), which parses back
\* to a.
C6_OffsetRoundTrip ==
    (CatalogSaved /\ FirstLeaf # 0 /\ ClaimedPageIsInteger /\ ActualFileNamesPage) =>
        LET p == initial_structure[FirstLeaf].starting_page.val
            a == get_filename_number(initial_structure[FirstLeaf].actual_starting_page)
        IN  /\ offset_pc = "applied"
            /\ PagesConvertible(initial_structure[FirstLeaf]) =>
                 /\ catalog_json[FirstLeaf].actual_starting_page = format_filename(p + (a - p))
                 /\ get_filename_number(catalog_json[FirstLeaf].actual_starting_page) = a
            /\ \A k \in DOMAIN initial_structure :
                  (initial_structure[k].starting_page.kind = "int"
                     /\ PagesConvertible(initial_structure[k])) =>
                      catalog_json[k].actual_starting_page =
                          format_filename(initial_structure[k].starting_page.val + (a - p))

\* a saved catalog whose first leaf claimed page 12 while its text starts in
\* PAGE0008.TXT: the offset is negative and the saved name is page0008.txt
C6_Witness ==
    /\ offset_pc = "applied"
    /\ FirstLeaf # 0
    /\ initial_structure[FirstLeaf].starting_page = PyInt(12)
    /\ initial_structure[FirstLeaf].actual_starting_page = "PAGE0008.TXT"
    /\ catalog_json[FirstLeaf].actual_starting_page = "page0008.txt"
    /\ \E k \in DOMAIN catalog_json : catalog_json[k].actual_starting_page = "page-002.txt"

\* a resolved page field that names no page file
Unresolvable(file_name) ==
    is_invalid_range_value(file_name) \/ get_filename_number(file_name) = NoNumber

\* C7: when the first leaf's claimed starting page is not an integer, or its
\* actual starting file name is missing or names no page number, every node of
\* the saved catalog has an unresolvable start and end page, and no node is
\* resolved with offset 0.
C7_FailureMarksAllUnresolvable ==
    (CatalogSaved /\ FirstLeaf # 0 /\ ~(ClaimedPageIsInteger /\ ActualFileNamesPage)) =>
        \A k \in DOMAIN catalog_json :
            /\ Unresolvable(catalog_json[k].actual_starting_page)
            /\ Unresolvable(catalog_json[k].actual_ending_page)
            /\ initial_structure[k].starting_page.kind \in {"int", "float"} =>
                   catalog_json[k].actual_starting_page #
                       format_filename(int(initial_structure[k].starting_page))

\* C21: an outline that holds no leaf is not written to catalog.json
C21_NoLeafWritesNoCatalog == FirstLeaf = 0 => ~CatalogSaved

\* the page value is a number for isinstance(x, (int, float))
IsNumeric(page) == page.kind \in {"int", "float", "nan"}

\* the offset of a resolved outline
ResolvedOffset ==
    get_filename_number(initial_structure[FirstLeaf].actual_starting_page)
        - initial_structure[FirstLeaf].starting_page.val

\* one page field as the statement has it: declared page + offset for a number,
\* a value that names no page file otherwise
ResolvedAsStated(page, file_name) ==
    IF IsNumeric(page)
    THEN /\ page.kind # "nan"
         /\ file_name = format_filename(int(page) + ResolvedOffset)
    ELSE file_name \in {"INVALID_PAGE_FORMAT", "PAGE_NOT_SPECIFIED"} /\ Unresolvable(file_name)

\* C22 as stated: with a resolved offset, every node's numeric starting
\* (ending) page is resolved to declared page + offset, and every absent or
\* non-numeric page field to a value that names no page
C22_Original ==
    offset_pc = "applied" =>
        \A k \in DOMAIN catalog_json :
            /\ ResolvedAsStated(initial_structure[k].starting_page,
                                catalog_json[k].actual_starting_page)
            /\ ResolvedAsStated(initial_structure[k].ending_page,
                                catalog_json[k].actual_ending_page)

\* C22: with a resolved offset, every node at every depth whose page values
\* convert to integers has its numeric starting (ending) page resolved to the
\* file name of int(declared page) + offset and its absent or non-numeric page
\* field set to a value that names no page; a node with a page value that does
\* not convert (NaN) has both fields set to OFFSET_ERROR, which names no page
C22_EveryNodeResolved ==
    offset_pc = "applied" =>
        \A k \in DOMAIN catalog_json :
            IF PagesConvertible(initial_structure[k])
            THEN /\ ResolvedAsStated(initial_structure[k].starting_page,
                                     catalog_json[k].actual_starting_page)
                 /\ ResolvedAsStated(initial_structure[k].ending_page,
                                     catalog_json[k].actual_ending_page)
            ELSE /\ catalog_json[k].actual_starting_page = "OFFSET_ERROR"
                 /\ catalog_json[k].actual_ending_page = "OFFSET_ERROR"
                 /\ Unresolvable("OFFSET_ERROR")

\* offset 3 from declared page 5 in page0008.txt: the chapter above the first
\* leaf is resolved to pages 8 and 29, the second leaf's float ending page 26.5
\* to page 29 and its non-numeric starting page to INVALID_PAGE_FORMAT
C22_Witness ==
    /\ offset_pc = "applied"
    /\ Len(catalog_json) = 3
    /\ ResolvedOffset = 3
    /\ catalog_json[1].actual_starting_page = "page0008.txt"
    /\ catalog_json[1].actual_ending_page = "page0029.txt"
    /\ initial_structure[3].parent = 1
    /\ initial_structure[3].ending_page = PyFloat(265)
    /\ catalog_json[3].actual_ending_page = "page0029.txt"
    /\ catalog_json[3].actual_starting_page = "INVALID_PAGE_FORMAT"

-----------------------------------------------------------------------------
(* embedding.py: knowledge-point extraction and the index build *)

\* a knowledge_points item that is not a string
NonString == "<NonString>"

WHITESPACE == {" ", "\t", "\n"}

RECURSIVE lstrip(_)
lstrip(s) ==
    IF Len(s) > 0 /\ SubSeq(s, 1, 1) \in WHITESPACE THEN lstrip(SubSeq(s, 2, Len(s))) ELSE s

RECURSIVE rstrip(_)
rstrip(s) ==
    IF Len(s) > 0 /\ SubSeq(s, Len(s), Len(s)) \in WHITESPACE
    THEN rstrip(SubSeq(s, 1, Len(s) - 1)) ELSE s

\* str.strip()
strip(s) == rstrip(lstrip(s))

\* lines 48-50: the items of one knowledge_points list that are appended
RECURSIVE stripped_items(_, _)
stripped_items(items, j) ==
    IF j > Len(items) THEN <<>>
    ELSE (IF items[j] # NonString /\ strip(items[j]) # "" THEN <<strip(items[j])>> ELSE <<>>)
             \o stripped_items(items, j + 1)

\* lines 34-59: the loop over node_list[i..]; returns all_kps_list
RECURSIVE _extract_recursive(_, _, _, _)
_extract_recursive(data, node_list, i, all_kps_list) ==
    IF i > Len(node_list) THEN all_kps_list
    ELSE LET node == data[node_list[i]]
             kps1 == IF node.knowledge_points.kind = "list"
                     THEN all_kps_list \o stripped_items(node.knowledge_points.items, 1)
                     ELSE all_kps_list
             kps2 == IF children_of(data, node_list[i]) # <<>>
                     THEN _extract_recursive(data, children_of(data, node_list[i]), 1, kps1)
                     ELSE kps1
         IN  _extract_recursive(data, node_list, i + 1, kps2)

keep_duplicates(extracted_kps) == extracted_kps

\* line 86: list(dict.fromkeys(extracted_kps))
RECURSIVE dict_fromkeys(_)
dict_fromkeys(extracted_kps) ==
    IF Len(extracted_kps) = 0 THEN <<>>
    ELSE LET head == dict_fromkeys(SubSeq(extracted_kps, 1, Len(extracted_kps) - 1))
             last == extracted_kps[Len(extracted_kps)]
         IN  IF last \in Range(head) THEN head ELSE Append(head, last)

\* lines 61-88
extract_knowledge_points_from_json(file) ==
    IF ~file.readable THEN <<>>
    ELSE dict_fromkeys(_extract_recursive(file.nodes, children_of(file.nodes, 0), 1, <<>>))

\* the embedding of a text: the vector is known by the text it was computed from
embedding_of(text) == [embeds |-> text]

\* the batch size of get_bert_embeddings (EMBEDDING_BATCH_SIZE, scaled down)
EMBEDDING_BATCH_SIZE == 2

\* line 121: the number of batches of range(0, len(texts), batch_size)
number_of_batches(texts) == (Len(texts) + EMBEDDING_BATCH_SIZE - 1) \div EMBEDDING_BATCH_SIZE

\* lines 122-136: one batch, texts[i:i+batch_size] for the b-th i
batch_embeddings(texts, b) ==
    LET first == (b - 1) * EMBEDDING_BATCH_SIZE + 1
        last  == IF b * EMBEDDING_BATCH_SIZE < Len(texts) THEN b * EMBEDDING_BATCH_SIZE
                 ELSE Len(texts)
    IN  [ j \in 1..(last - first + 1) |-> embedding_of(texts[first + j - 1]) ]

\* lines 121-136: the batches b.. appended to all_embeddings_list
RECURSIVE embed_batches(_, _, _)
embed_batches(texts, b, all_embeddings_list) ==
    IF b > number_of_batches(texts) THEN all_embeddings_list
    ELSE embed_batches(texts, b + 1, all_embeddings_list \o batch_embeddings(texts, b))

get_bert_embeddings_keep_partial(texts, fault) ==
    IF texts = <<>> \/ fault.kind = "model_load"
    THEN [raised |-> FALSE, embeddings |-> <<>>]
    ELSE IF fault.kind = "batch"
    THEN [raised |-> FALSE,
          embeddings |-> embed_batches(SubSeq(texts, 1, (fault.batch - 1) * EMBEDDING_BATCH_SIZE),
                                       1, <<>>)]
    ELSE [raised |-> FALSE, embeddings |-> embed_batches(texts, 1, <<>>)]

\* lines 90-146: no texts or no model give the empty array; an exception in a
\* batch is not handled here and leaves the function
get_bert_embeddings(texts, fault) ==
    IF texts = <<>> \/ fault.kind = "model_load"
    THEN [raised |-> FALSE, embeddings |-> <<>>]
    ELSE IF fault.kind = "batch"
    THEN [raised |-> TRUE, embeddings |-> <<>>]
    ELSE [raised |-> FALSE, embeddings |-> embed_batches(texts, 1, <<>>)]

\* a file that does not exist, a file written completely, and a file whose
\* write broke off
AbsentFile == [state |-> "absent", entries |-> <<>>]
WrittenFile(entries) == [state |-> "ok", entries |-> entries]
PartialFile == [state |-> "partial", entries |-> <<>>]

\* a write that fails leaves the file as it was (the directory or the open
\* failed) or broken off (the file was opened for writing and truncated)
FailedWrite(file, effect) == IF effect = "untouched" THEN file ELSE PartialFile

\* lines 148-182: the index file after the call, and the returned flag
create_and_save_faiss_index(embeddings_np, index_file, fault) ==
    IF embeddings_np = <<>> THEN [saved |-> FALSE, file |-> index_file]
    ELSE IF fault.kind = "index_write"
    THEN [saved |-> FALSE, file |-> FailedWrite(index_file, fault.effect)]
    ELSE [saved |-> TRUE, file |-> WrittenFile(embeddings_np)]

\* lines 184-245: the files and the end of one run
run_embedding_generation(catalog, index_file, mapping, fault) ==
    LET texts      == extract_knowledge_points_from_json(catalog)
        embedded   == get_bert_embeddings(texts, fault)
        embeddings == embedded.embeddings
        index      == create_and_save_faiss_index(embeddings, index_file, fault)
        unwritten  == [texts |-> texts, index_file |-> index_file, mapping_file |-> mapping]
    IN  IF texts = <<>> THEN unwritten @@ [pc |-> "no_texts"]
        ELSE IF embedded.raised THEN unwritten @@ [pc |-> "raised"]
        ELSE IF embeddings = <<>> THEN unwritten @@ [pc |-> "no_embeddings"]
        ELSE IF ~index.saved
        THEN [texts |-> texts, index_file |-> index.file, mapping_file |-> mapping,
              pc |-> "index_not_saved"]
        ELSE [texts |-> texts, index_file |-> index.file,
              mapping_file |-> IF fault.kind = "mapping_write"
                               THEN FailedWrite(mapping, fault.effect)
                               ELSE WrittenFile(texts),
              pc |-> "finished"]

-----------------------------------------------------------------------------
(* The inputs and the steps of embedding.run_embedding_generation *)

\* the largest catalog of varied shape, in nodes
MaxSegNodes == 3

\* the longest knowledge_points list whose items are varied
MaxKpItems == 3

\* the value of a node's knowledge_points: a list, another JSON value, no key
KpList(items) == [kind |-> "list", items |-> items]
KpOther == [kind |-> "other", items |-> <<>>]
KpMissing == [kind |-> "missing", items |-> <<>>]

SegNode(parent, knowledge_points) ==
    [parent |-> parent, knowledge_points |-> knowledge_points]

CatalogFile(nodes) == [readable |-> TRUE, nodes |-> nodes]

\* the file is missing or holds no JSON
UnreadableFile == [readable |-> FALSE, nodes |-> <<>>]

\* catalogs of every shape with two different lists
RECURSIVE SegmentTrees(_)
SegmentTrees(n) ==
    IF n = 0 THEN { <<>> }
    ELSE { Append(cat, SegNode(parent, kps)) :
             cat \in SegmentTrees(n - 1),
             parent \in 0..(n - 1),
             kps \in { KpList(<<"x squared">>), KpList(<<"y cubed", "x squared">>) } }

KpItems == { "x squared", " x squared\n", "y cubed", "  ", NonString }

RECURSIVE KpItemLists(_)
KpItemLists(n) ==
    IF n = 0 THEN { <<>> }
    ELSE { Append(l, x) : l \in KpItemLists(n - 1), x \in KpItems }

\* one-node catalogs with every list of items, another value, or no key
OneNodeCatalogs ==
    { << SegNode(0, KpList(l)) >> : l \in UNION { KpItemLists(n) : n \in 0..MaxKpItems } }
        \cup { << SegNode(0, KpOther) >>, << SegNode(0, KpMissing) >> }

\* what a later segmentation run leaves in catalog_with_segments.json
RevisedCatalogs ==
    { CatalogFile(<< SegNode(0, KpList(<<"y cubed", "z">>)), SegNode(1, KpList(<<"x squared">>)) >>),
      CatalogFile(<< SegNode(0, KpList(<<"z">>)) >>),
      UnreadableFile }

NoFault == [kind |-> "none", batch |-> 0, effect |-> "none"]

\* what may strike one run: the model does not load, the b-th batch raises,
\* the index write fails, the mapping write fails
Faults ==
    { NoFault, [kind |-> "model_load", batch |-> 0, effect |-> "none"] }
        \cup { [kind |-> "batch", batch |-> b, effect |-> "none"] :
                 b \in 1..((MaxKpItems + EMBEDDING_BATCH_SIZE - 1) \div EMBEDDING_BATCH_SIZE) }
        \cup { [kind |-> k, batch |-> 0, effect |-> e] :
                 k \in {"index_write", "mapping_write"}, e \in {"untouched", "broken_off"} }

\* the fault strikes a step the run reaches
Strikes(fault, texts) ==
    /\ texts = <<>> => fault = NoFault
    /\ fault.kind = "batch" => fault.batch <= number_of_batches(texts)

EmbedInit ==
    /\ \/ \E nodes \in UNION { SegmentTrees(n) : n \in 0..MaxSegNodes } \cup OneNodeCatalogs :
            catalog_with_segments = CatalogFile(nodes)
       \/ catalog_with_segments = UnreadableFile
    /\ knowledge_points_texts = <<>>
    /\ faiss_index_file = AbsentFile
    /\ mapping_file = AbsentFile
    /\ embed_fault = NoFault
    /\ embed_pc = "idle"

\* lines 184-245: one run, whatever strikes it
RunEmbeddingGeneration ==
    /\ \E fault \in Faults :
         /\ Strikes(fault, extract_knowledge_points_from_json(catalog_with_segments))
         /\ LET run == run_embedding_generation(catalog_with_segments, faiss_index_file,
                                                 mapping_file, fault)
            IN  /\ knowledge_points_texts' = run.texts
                /\ faiss_index_file' = run.index_file
                /\ mapping_file' = run.mapping_file
                /\ embed_pc' = run.pc
         /\ embed_fault' = fault
    /\ UNCHANGED catalog_with_segments
    /\ UNCHANGED notEmbedVars

\* between two runs the document is segmented again
ChangeCatalog ==
    /\ \E file \in RevisedCatalogs :
         /\ file # catalog_with_segments
         /\ catalog_with_segments' = file
    /\ knowledge_points_texts' = <<>>
    /\ embed_fault' = NoFault
    /\ embed_pc' = "idle"
    /\ UNCHANGED <<faiss_index_file, mapping_file>>
    /\ UNCHANGED notEmbedVars

-----------------------------------------------------------------------------
(* C8 - C10: the index build *)

\* the 1-based position of catalog node k among its siblings
SegPosition(k) ==
    Cardinality({ j \in 1..k :
                    catalog_with_segments.nodes[j].parent
                        = catalog_with_segments.nodes[k].parent })

\* the sibling positions on the way from the top level down to node k
RECURSIVE SegPath(_)
SegPath(k) ==
    IF catalog_with_segments.nodes[k].parent = 0 THEN << SegPosition(k) >>
    ELSE Append(SegPath(catalog_with_segments.nodes[k].parent), SegPosition(k))

\* node path p is visited before node path q in a depth-first traversal
PathBefore(p, q) ==
    \E i \in 1..(Len(p) + 1) :
        /\ i <= Len(q)
        /\ \A j \in 1..(i - 1) : p[j] = q[j]
        /\ i = Len(p) + 1 \/ p[i] < q[i]

\* the occurrences of knowledge-point texts in the catalog: node and item index
Occurrences ==
    { o \in UNION { { <<k, j>> : j \in DOMAIN catalog_with_segments.nodes[k].knowledge_points.items } :
                      k \in DOMAIN catalog_with_segments.nodes } :
        LET item == catalog_with_segments.nodes[o[1]].knowledge_points.items[o[2]]
        IN  item # NonString /\ strip(item) # "" }

OccurrenceText(o) == strip(catalog_with_segments.nodes[o[1]].knowledge_points.items[o[2]])

OccursBefore(o1, o2) ==
    \/ o1[1] = o2[1] /\ o1[2] < o2[2]
    \/ o1[1] # o2[1] /\ PathBefore(SegPath(o1[1]), SegPath(o2[1]))

FirstOccurrence(text) ==
    CHOOSE o \in Occurrences :
        /\ OccurrenceText(o) = text
        /\ \A o2 \in Occurrences : OccurrenceText(o2) = text => (o2 = o \/ OccursBefore(o, o2))

\* C8: the extracted list holds every knowledge-point text of the catalog
\* once, distinct texts in the order of their first occurrence in the
\* depth-first traversal; after a run that nothing struck, the mapping file is
\* that list and vector i of the index embeds mapping entry i.
C8_DedupFirstOccurrenceOrder ==
    (embed_pc # "idle" /\ catalog_with_segments.readable) =>
        /\ \A i, j \in DOMAIN knowledge_points_texts :
              knowledge_points_texts[i] = knowledge_points_texts[j] => i = j
        /\ Range(knowledge_points_texts) = { OccurrenceText(o) : o \in Occurrences }
        /\ \A i, j \in DOMAIN knowledge_points_texts :
              i < j => OccursBefore(FirstOccurrence(knowledge_points_texts[i]),
                                    FirstOccurrence(knowledge_points_texts[j]))
        /\ (embed_pc = "finished" /\ embed_fault = NoFault) =>
              /\ mapping_file = WrittenFile(knowledge_points_texts)
              /\ faiss_index_file.state = "ok"
              /\ DOMAIN faiss_index_file.entries = DOMAIN mapping_file.entries
              /\ \A i \in DOMAIN mapping_file.entries :
                    faiss_index_file.entries[i] = embedding_of(mapping_file.entries[i])

\* the build from ["x squared", "x squared", "y cubed"]
C8_Witness ==
    /\ embed_pc = "finished"
    /\ catalog_with_segments =
           CatalogFile(<< SegNode(0, KpList(<<"x squared", "x squared", "y cubed">>)) >>)
    /\ mapping_file.entries = <<"x squared", "y cubed">>
    /\ faiss_index_file.entries = << embedding_of("x squared"), embedding_of("y cubed") >>

\* C9: between runs the persisted index and the persisted mapping belong to
\* the same build: when both files are there, they have the same number of
\* entries and mapping entry i is the text embedded as vector i.
C9_IndexAndMappingSameBuild ==
    (faiss_index_file.state = "ok" /\ mapping_file.state = "ok") =>
        /\ DOMAIN faiss_index_file.entries = DOMAIN mapping_file.entries
        /\ \A i \in DOMAIN mapping_file.entries :
              faiss_index_file.entries[i] = embedding_of(mapping_file.entries[i])

\* C10: a run in which a batch of the embedding raises leaves the index file
\* and the mapping file exactly as they were.
C10_BatchFailureWritesNothing ==
    [][embed_fault'.kind = "batch" =>
          (faiss_index_file' = faiss_index_file /\ mapping_file' = mapping_file)]_vars

\* the second batch raised in a rebuild of a document whose catalog had
\* changed: the files of the earlier build are still there
C10_Witness ==
    /\ embed_pc = "raised"
    /\ embed_fault.kind = "batch"
    /\ embed_fault.batch = 2
    /\ faiss_index_file.state = "ok"
    /\ mapping_file.state = "ok"
    /\ mapping_file.entries # knowledge_points_texts

-----------------------------------------------------------------------------
(* search_similar.py: the nearest-neighbour search *)

\* line 27
SEARCH_TOP_K == 3

\* the value of faiss_search_k when faiss_index_obj.search was not called; a
\* call asks for at least one neighbour
NotSearched == 0

\* min(a, b)
min(a, b) == IF a <= b THEN a ELSE b

\* line 78: what faiss_index_obj.search gave: it raised, or a row of ids
SearchRaised == [raised |-> TRUE, indices |-> <<>>]
SearchFound(indices) == [raised |-> FALSE, indices |-> indices]

\* lines 85-95 without the tests of lines 88 and 91
collect_results_unchecked(indices, i, id_to_text_mapping) ==
    [ j \in 1..Len(indices) |->
        [text |-> IF indices[j] + 1 \in DOMAIN id_to_text_mapping
                  THEN id_to_text_mapping[indices[j] + 1] ELSE None,
         id |-> indices[j]] ]

\* lines 85-95: the results of the ids indices[i..]
RECURSIVE collect_results(_, _, _)
collect_results(indices, i, id_to_text_mapping) ==
    IF i > Len(indices) THEN <<>>
    ELSE LET idx == indices[i]
         IN  (IF idx # -1 /\ 0 <= idx /\ idx < Len(id_to_text_mapping)
              THEN << [text |-> id_to_text_mapping[idx + 1], id |-> idx] >>
              ELSE <<>>)
                 \o collect_results(indices, i + 1, id_to_text_mapping)

\* line 69
actual_top_k(top_k_val, index_obj) == min(top_k_val, Len(index_obj))

\* lines 55-97: the k asked of the index and the returned list; found is what
\* faiss_index_obj.search gives if it is called
search_in_faiss_index(query_text, index_obj, id_to_text_mapping, top_k_val, found) ==
    IF strip(query_text) = "" THEN [asked |-> NotSearched, results |-> <<>>]
    ELSE IF actual_top_k(top_k_val, index_obj) <= 0
    THEN [asked |-> NotSearched, results |-> <<>>]
    ELSE IF found.raised
    THEN [asked |-> actual_top_k(top_k_val, index_obj), results |-> <<>>]
    ELSE [asked |-> actual_top_k(top_k_val, index_obj),
          results |-> collect_results(found.indices, 1, id_to_text_mapping)]

\* lines 99-159: where the call returns and what it returns; files that
\* were not loaded are given as empty objects
find_similar_knowledge_points(question, index_file, mapping, model_loads, top_k, found) ==
    LET nothing == [index_obj |-> <<>>, mapping_list |-> <<>>, asked |-> NotSearched,
                    results |-> <<>>]
        searched == search_in_faiss_index(question, index_file.entries, mapping.entries,
                                          top_k, found)
    IN  IF index_file.state = "absent" THEN nothing @@ [pc |-> "index_not_found"]
        ELSE IF mapping.state = "absent" THEN nothing @@ [pc |-> "mapping_not_found"]
        ELSE IF index_file.state = "partial" THEN nothing @@ [pc |-> "index_not_loaded"]
        ELSE IF index_file.entries = <<>> THEN nothing @@ [pc |-> "index_empty"]
        ELSE IF mapping.state = "partial"
        THEN [nothing EXCEPT !.index_obj = index_file.entries] @@ [pc |-> "mapping_not_loaded"]
        ELSE IF ~model_loads
        THEN [index_obj |-> index_file.entries, mapping_list |-> mapping.entries,
              asked |-> NotSearched, results |-> <<>>, pc |-> "model_not_loaded"]
        ELSE [index_obj |-> index_file.entries, mapping_list |-> mapping.entries,
              asked |-> searched.asked, results |-> searched.results, pc |-> "searched"]

-----------------------------------------------------------------------------
(* The inputs and the calls of search_similar *)

\* the largest index object handed to search_in_faiss_index, in vectors
MaxVectors == 3

\* the index file and the mapping file after one more run of the build
AfterRun(files, catalog, fault) ==
    LET run == run_embedding_generation(catalog, files.index, files.mapping, fault)
    IN  [index |-> run.index_file, mapping |-> run.mapping_file]

RunsOn(files) ==
    UNION { { AfterRun(files, catalog, fault) :
                fault \in { f \in Faults :
                              Strikes(f, extract_knowledge_points_from_json(catalog)) } } :
              catalog \in RevisedCatalogs }

\* the file pairs that up to two runs of the build leave behind
BuiltArtifacts ==
    LET none == [index |-> AbsentFile, mapping |-> AbsentFile]
        one  == {none} \cup RunsOn(none)
    IN  one \cup UNION { RunsOn(files) : files \in one }

\* file pairs given on the command line that no build wrote: an index without
\* vectors, and a mapping whose index was removed
ForeignArtifacts ==
    { [index |-> WrittenFile(<<>>), mapping |-> WrittenFile(<<>>)],
      [index |-> AbsentFile, mapping |-> WrittenFile(<<"z">>)] }

Queries == { "x squared", "  ", "" }

TopKValues == { -1, 0, 1, 2, SEARCH_TOP_K, 5 }

\* the rows of k distinct ids out of 0..n-1
RECURSIVE IdRows(_, _)
IdRows(n, k) ==
    IF k = 0 THEN { <<>> }
    ELSE { Append(row, idx) : row \in IdRows(n, k - 1), idx \in 0..(n - 1) } \ 
         { row \in { Append(r, idx) : r \in IdRows(n, k - 1), idx \in 0..(n - 1) } :
             \E i, j \in DOMAIN row : i # j /\ row[i] = row[j] }

\* line 78: what faiss_index_obj.search may give for k neighbours out of n
\* vectors: it raises, k ids nearest first, or such a row ending in -1
FaissOutcomes(n, k) ==
    IF k <= 0 THEN { SearchRaised }
    ELSE { SearchRaised }
           \cup { SearchFound(row) : row \in IdRows(n, k) }
           \cup { SearchFound([row EXCEPT ![k] = -1]) : row \in IdRows(n, k) }

\* an index object of n vectors and a mapping list of m entries
KpText(i) == "kp" \o ToString(i)
IndexObject(n) == [ i \in 1..n |-> embedding_of(KpText(i)) ]
MappingList(m) == [ i \in 1..m |-> KpText(i) ]

SearchInit ==
    /\ \E files \in BuiltArtifacts \cup ForeignArtifacts :
         /\ faiss_index_file = files.index
         /\ mapping_file = files.mapping
    /\ catalog_with_segments = UnreadableFile
    /\ knowledge_points_texts = <<>>
    /\ embed_fault = NoFault
    /\ embed_pc = "idle"
    /\ question_str = ""
    /\ top_k_to_search = SEARCH_TOP_K
    /\ faiss_index_obj = <<>>
    /\ id_to_text_mapping_list = <<>>
    /\ faiss_search_k = NotSearched
    /\ similar_results = <<>>
    /\ search_pc = "call"

\* lines 99-159: one query against the two files
FindSimilarKnowledgePoints ==
    /\ search_pc = "call"
    /\ \E question \in Queries, top_k \in TopKValues, model_loads \in BOOLEAN :
         \E found \in FaissOutcomes(Len(faiss_index_file.entries),
                                    actual_top_k(top_k, faiss_index_file.entries)) :
           LET call == find_similar_knowledge_points(question, faiss_index_file, mapping_file,
                                                     model_loads, top_k, found)
           IN  /\ question_str' = question
               /\ top_k_to_search' = top_k
               /\ faiss_index_obj' = call.index_obj
               /\ id_to_text_mapping_list' = call.mapping_list
               /\ faiss_search_k' = call.asked
               /\ similar_results' = call.results
               /\ search_pc' = call.pc
    /\ UNCHANGED notSearchVars

\* lines 55-97: search_in_faiss_index called with an index object and a list
SearchInFaissIndex ==
    /\ search_pc = "call"
    /\ \E question \in Queries, top_k \in TopKValues,
          n \in 0..MaxVectors, m \in 0..MaxVectors :
         \E found \in FaissOutcomes(n, min(top_k, n)) :
           LET call == search_in_faiss_index(question, IndexObject(n), MappingList(m),
                                             top_k, found)
           IN  /\ question_str' = question
               /\ top_k_to_search' = top_k
               /\ faiss_index_obj' = IndexObject(n)
               /\ id_to_text_mapping_list' = MappingList(m)
               /\ faiss_search_k' = call.asked
               /\ similar_results' = call.results
               /\ search_pc' = "searched_directly"
    /\ UNCHANGED notSearchVars

-----------------------------------------------------------------------------
(* C11 - C13: the search *)

\* find_similar_knowledge_points loaded both files
BothFilesLoaded == search_pc \in {"model_not_loaded", "searched"}

\* C11: when the loaded mapping and the loaded index differ in length,
\* find_similar_knowledge_points returns no result looked up in that mapping.
C11_MisalignedPairServesNothing ==
    (BothFilesLoaded /\ Len(id_to_text_mapping_list) # Len(faiss_index_obj)) =>
        similar_results = <<>>

\* C12: a search whose index file or mapping file does not exist does not
\* return the plain empty list.
C12_MissingFilesAreNotAnEmptyResult ==
    search_pc \in {"index_not_found", "mapping_not_found"} => similar_results # <<>>

\* search_in_faiss_index was called
SearchCalled == search_pc \in {"searched", "searched_directly"}

\* C13: for a query that is not blank, an index of n vectors and any k, the
\* index is asked for min(k, n) neighbours if that is positive and is not
\* asked otherwise; at most min(k, n) results are returned, none if
\* min(k, n) <= 0; every result has 0 <= id < len(mapping) and
\* text = mapping[id].
C13_ClampedSearch ==
    SearchCalled =>
        LET wanted == min(top_k_to_search, Len(faiss_index_obj))
        IN  /\ (strip(question_str) # "" /\ wanted > 0) => faiss_search_k = wanted
            /\ wanted <= 0 => (faiss_search_k = NotSearched /\ similar_results = <<>>)
            /\ Len(similar_results) <= (IF wanted > 0 THEN wanted ELSE 0)
            /\ \A i \in DOMAIN similar_results :
                  /\ 0 <= similar_results[i].id
                  /\ similar_results[i].id < Len(id_to_text_mapping_list)
                  /\ similar_results[i].text
                         = id_to_text_mapping_list[similar_results[i].id + 1]

\* five neighbours wanted of an index of two vectors whose mapping has one
\* entry: two are asked for, the id outside the mapping is dropped
C13_Witness ==
    /\ search_pc = "searched_directly"
    /\ top_k_to_search = 5
    /\ Len(faiss_index_obj) = 2
    /\ Len(id_to_text_mapping_list) = 1
    /\ faiss_search_k = 2
    /\ similar_results = << [text |-> KpText(1), id |-> 0] >>

-----------------------------------------------------------------------------
(* app.py: send_chat_message, the reference material of a chat answer *)

\* The texts are written in Latin letters, one character of the alphabet for
\* one character of the text, so that a word of two characters has length 2.

\* line 702
MAX_CONTEXT_CHUNKS == 8

\* line 710: kp_data['text'][:50]
KEY_TEXT_CHARS == 50

\* [a-zA-Z0-9]: the characters jieba keeps together as one word
WORD_CHARS == LOWERCASE \o UPPERCASE \o DIGITS

WordCharSet == { SubSeq(WORD_CHARS, i, i) : i \in 1..Len(WORD_CHARS) }

IsWordChar(c) == c \in WordCharSet

\* jieba.lcut(s) from character i on, word being the word read so far: a run
\* of word characters is one token, any other character a token of its own
RECURSIVE lcut_from(_, _, _)
lcut_from(s, i, word) ==
    LET read == IF word = "" THEN <<>> ELSE <<word>>
    IN  IF i > Len(s) THEN read
        ELSE LET c == SubSeq(s, i, i)
             IN  IF IsWordChar(c) THEN lcut_from(s, i + 1, word \o c)
                 ELSE read \o <<c>> \o lcut_from(s, i + 1, "")

\* jieba.lcut(s)
lcut(s) == lcut_from(s, 1, "")

\* lines 685-688, transliterated: "d" (de), "s" (shi), "fx" (fenxi),
\* "wj" (wenjian), "sm" (shenme), "ssm" (shi shenme)
stop_words == {"d", "s", "fx", "wj", "sm", "ssm"}

\* line 689
query_words(message) ==
    { word \in Range(lcut(lower(message))) : Len(word) > 1 /\ word \notin stop_words }

\* line 695
kp_segmented_words(text) == Range(lcut(lower(text)))

\* line 696
score(message, text) ==
    Cardinality({ word \in query_words(message) : word \in kp_segmented_words(text) })

\* lines 693-698 with the test of line 697 left out
RECURSIVE scored_chunks_unfiltered(_, _, _)
scored_chunks_unfiltered(message, kps, i) ==
    IF i > Len(kps) THEN <<>>
    ELSE IF ~Truthy(kps[i].text) THEN scored_chunks_unfiltered(message, kps, i + 1)
    ELSE <<[score |-> score(message, kps[i].text), kp |-> kps[i]]>>
            \o scored_chunks_unfiltered(message, kps, i + 1)

\* lines 692-698: the loop over all_knowledge_points, from item i on
RECURSIVE scored_chunks_from(_, _, _)
scored_chunks_from(message, kps, i) ==
    IF i > Len(kps) THEN <<>>
    ELSE IF ~Truthy(kps[i].text) THEN scored_chunks_from(message, kps, i + 1)
    ELSE LET s == score(message, kps[i].text)
         IN  (IF s > 0 THEN <<[score |-> s, kp |-> kps[i]]>> ELSE <<>>)
                \o scored_chunks_from(message, kps, i + 1)

\* list.sort(key=lambda x: x[0], reverse=True) puts one more item into a
\* sorted list: after every item whose score is not smaller
RECURSIVE insert_by_score(_, _)
insert_by_score(sorted, item) ==
    IF sorted = <<>> THEN <<item>>
    ELSE IF Head(sorted).score >= item.score
         THEN <<Head(sorted)>> \o insert_by_score(Tail(sorted), item)
         ELSE <<item>> \o sorted

\* line 700: the sort is stable, also with reverse=True
RECURSIVE sort_by_score(_)
sort_by_score(chunks) ==
    IF chunks = <<>> THEN <<>>
    ELSE insert_by_score(sort_by_score(SubSeq(chunks, 1, Len(chunks) - 1)),
                         chunks[Len(chunks)])

\* s[:n]
prefix(s, n) == SubSeq(s, 1, min(n, Len(s)))

\* line 710
kp_unique_id_for_context(kp_data) ==
    kp_data.doc_name \o "_" \o kp_data.chapter_name \o "_"
        \o prefix(kp_data.text, KEY_TEXT_CHARS)

\* lines 706-725: the loop over scored_chunks from item i on; the chunks it
\* appends, each with its citation_id_counter
RECURSIVE select_chunks(_, _, _, _)
select_chunks(scored, i, citation_id_counter, seen_kp_identifiers_for_rag) ==
    IF i > Len(scored) \/ citation_id_counter > MAX_CONTEXT_CHUNKS THEN <<>>
    ELSE LET kp_data == scored[i].kp
             key == kp_unique_id_for_context(kp_data)
         IN  IF key \in seen_kp_identifiers_for_rag
             THEN select_chunks(scored, i + 1, citation_id_counter,
                                seen_kp_identifiers_for_rag)
             ELSE <<[counter |-> citation_id_counter, kp |-> kp_data]>>
                    \o select_chunks(scored, i + 1, citation_id_counter + 1,
                                     seen_kp_identifiers_for_rag \cup {key})

\* lines 713-718
chunk_for_llm(selected) ==
    [ id |-> "[" \o ToString(selected.counter) \o "]",
      text |-> selected.kp.text,
      original_doc_name |-> selected.kp.doc_name,
      chapter_name |-> selected.kp.chapter_name ]

\* lines 719-723
citation_for_response(selected) ==
    [ id |-> ToString(selected.counter),
      doc_name |-> selected.kp.doc_name,
      text |-> selected.kp.text ]

\* the fixed sentences of lines 734, 740, 742 and 744, in English
REFERENCES_FOLLOW == "Reference material chosen by the user follows.\n\n"
CITE_WITH_BRACKETS == "Answer from the material above and cite it as [1], [2].\n\n"
NOTHING_RELEVANT_FOUND == "No reference material related to the question was found in the chosen files."
NO_FILES_SELECTED == "No reference material was chosen.\n\n"

\* lines 737 and 739: the fence of the text of a chunk, three grave accents
FENCE == "~~~"

\* lines 736-739
reference_block(chunk_info_for_llm) ==
    "### Reference: document '" \o chunk_info_for_llm.original_doc_name
        \o "', fragment " \o chunk_info_for_llm.id
        \o ": from chapter '" \o chunk_info_for_llm.chapter_name \o "'\n"
        \o FENCE \o "text\n" \o chunk_info_for_llm.text \o "\n" \o FENCE \o "\n\n"

\* lines 735-739
RECURSIVE reference_blocks(_)
reference_blocks(chunks) ==
    IF chunks = <<>> THEN ""
    ELSE reference_block(Head(chunks)) \o reference_blocks(Tail(chunks))

\* lines 733-744 without the test for selected chunks
build_context_without_test(related_file_ids, relevant_chunks) ==
    IF related_file_ids # <<>>
    THEN REFERENCES_FOLLOW \o reference_blocks(relevant_chunks) \o CITE_WITH_BRACKETS
    ELSE NO_FILES_SELECTED

\* lines 733-744
build_context(related_file_ids, relevant_chunks) ==
    IF related_file_ids # <<>> /\ relevant_chunks # <<>>
    THEN REFERENCES_FOLLOW \o reference_blocks(relevant_chunks) \o CITE_WITH_BRACKETS
    ELSE IF related_file_ids # <<>> THEN NOTHING_RELEVANT_FOUND
    ELSE NO_FILES_SELECTED

\* lines 587-671: the knowledge points of one chosen file; a file without
\* metadata (line 591) gives none
kps_of_file(file) ==
    IF file.doc_name = None THEN <<>>
    ELSE [ i \in DOMAIN file.chunks |->
            [ text |-> file.chunks[i].text,
              doc_name |-> file.doc_name,
              chapter_name |-> file.chunks[i].chapter_name ] ]

\* lines 585-671
RECURSIVE collect_knowledge_points(_)
collect_knowledge_points(files) ==
    IF files = <<>> THEN <<>>
    ELSE kps_of_file(Head(files)) \o collect_knowledge_points(Tail(files))

\* most knowledge points of one chosen file, where the lists are enumerated
MaxChunks == 3

\* the knowledge points of the long lists, more than MAX_CONTEXT_CHUNKS
MaxCandidates == 10

\* the messages of the user; "" is rejected with status 400
Messages == {"", "aa", "bb AA", "sm a", "cc"}

\* a knowledge point as catalog_with_segments.json holds it: the name of its
\* chapter and its text
Chunk(chapter_name, text) == [chapter_name |-> chapter_name, text |-> text]

ChunkChoices ==
    { Chunk("c", "aa"), Chunk("c", "bb aa"), Chunk("c_aa", "aa bb"),
      Chunk("c", "aa_aa bb"), Chunk("c", ""), Chunk("c", "sm a"),
      Chunk("c", "AA bb") }

ChunkLists == UNION { [1..n -> ChunkChoices] : n \in 0..MaxChunks }

\* a file the request names: the name of the document and its knowledge points
ChosenFile(doc_name, chunks) == [doc_name |-> doc_name, chunks |-> chunks]

\* requests that name one processed file
OneFileRequests == { <<ChosenFile("n", chunks)>> : chunks \in ChunkLists }

\* a file id without metadata, files without knowledge points, two documents
SmallFiles ==
    { ChosenFile(None, <<>>), ChosenFile("n", <<>>),
      ChosenFile("n", <<Chunk("c", "aa")>>), ChosenFile("m", <<Chunk("c", "aa")>>),
      ChosenFile("n_c", <<Chunk("aa", "bb")>>), ChosenFile("n", <<Chunk("c_aa", "bb")>>) }

TwoFileRequests == { <<f, g>> : f \in SmallFiles, g \in SmallFiles }

\* a text of more than KEY_TEXT_CHARS characters: its first 50 are the same
\* whatever its ending is
LongText(ending) == "aa 3456789 123456789 123456789 123456789 123456789 " \o ending

\* MaxCandidates knowledge points that all hold the word "aa"; the one at
\* position p is plain, holds a second word of the message, repeats the first
\* one, or is one of two long texts that differ after 50 characters
CandidateKinds == {"plain", "high", "repeated", "long"}

CandidateText(i, p, kind) ==
    IF i = p /\ kind = "high" THEN "aa bb " \o ToString(i)
    ELSE IF i = p /\ kind = "repeated" THEN "aa 1"
    ELSE IF i = p /\ kind = "long" THEN LongText("bb")
    ELSE IF i = 1 /\ kind = "long" THEN LongText("cc")
    ELSE "aa " \o ToString(i)

ManyCandidates(p, kind) ==
    [ i \in 1..MaxCandidates |-> Chunk("c", CandidateText(i, p, kind)) ]

ManyCandidateRequests ==
    { <<ChosenFile("n", ManyCandidates(p, kind))>> :
        p \in 2..MaxCandidates, kind \in CandidateKinds }

NoFilesRequest == <<>>

ChatInit ==
    /\ user_message_content \in Messages
    /\ related_files \in
            OneFileRequests \cup TwoFileRequests \cup ManyCandidateRequests
                \cup {NoFilesRequest}
    /\ all_knowledge_points = <<>>
    /\ scored_chunks = <<>>
    /\ relevant_chunks_for_llm = <<>>
    /\ citations_for_response = <<>>
    /\ context_str = ""
    /\ final_ai_response_json = [text |-> "unavailable", citations |-> <<>>]
    /\ chat_pc = "call"

\* send_chat_message, lines 527-826: the reference material is collected,
\* scored and selected, the context is written and the model is asked; the
\* call of the model answers or raises
SendChatMessage ==
    /\ chat_pc = "call"
    /\ IF ~Truthy(user_message_content)
       THEN /\ chat_pc' = "empty_message"
            /\ UNCHANGED <<all_knowledge_points, scored_chunks, relevant_chunks_for_llm,
                           citations_for_response, context_str, final_ai_response_json>>
       ELSE LET kps == collect_knowledge_points(related_files)
                scored == IF kps # <<>>
                          THEN sort_by_score(scored_chunks_from(user_message_content, kps, 1))
                          ELSE <<>>
                selected == select_chunks(scored, 1, 1, {})
                chunks == [ i \in DOMAIN selected |-> chunk_for_llm(selected[i]) ]
                citations == [ i \in DOMAIN selected |-> citation_for_response(selected[i]) ]
            IN  /\ all_knowledge_points' = kps
                /\ scored_chunks' = scored
                /\ relevant_chunks_for_llm' = chunks
                /\ citations_for_response' = citations
                /\ context_str' = build_context(related_files, chunks)
                /\ \E completion_raises \in BOOLEAN :
                        IF completion_raises
                        THEN /\ final_ai_response_json' =
                                    [text |-> "error", citations |-> <<>>]
                             /\ chat_pc' = "llm_failed"
                        ELSE /\ final_ai_response_json' =
                                    [text |-> "answer", citations |-> citations]
                             /\ chat_pc' = "answered"
    /\ UNCHANGED <<user_message_content, related_files>>
    /\ UNCHANGED notChatVars

\* the request was handled up to the call of the model
ContextAssembled == chat_pc \in {"answered", "llm_failed"}

\* the words of s, whatever their case: the runs of word characters with no
\* word character before or after
WordsOf(s) ==
    LET t == lower(s)
        word_char == [ k \in 1..Len(t) |-> IsWordChar(SubSeq(t, k, k)) ]
        starts == { i \in 1..Len(t) : word_char[i] /\ (i = 1 \/ ~word_char[i - 1]) }
        ends == { j \in 1..Len(t) : word_char[j] /\ (j = Len(t) \/ ~word_char[j + 1]) }
        end_of(i) == CHOOSE j \in ends : j >= i /\ \A k \in ends : k >= i => k >= j
    IN  { SubSeq(t, i, end_of(i)) : i \in starts }

\* the content words of the message: longer than one character, no stop word
ContentWords(message) == { w \in WordsOf(message) : Len(w) > 1 /\ w \notin stop_words }

\* the number of content words of the message that are words of the text
SharedWords(message, text) ==
    Cardinality({ w \in ContentWords(message) : w \in WordsOf(text) })

\* C14: the score of every scored candidate is the number of content words of
\* the message (tokens longer than one character that are no stop words) among
\* the tokens of the candidate; the scored candidates are the candidates with
\* a score above 0, and every selected chunk is one of them
C14_ScoreCountsSharedContentWords ==
    ContextAssembled =>
        /\ \A i \in DOMAIN scored_chunks :
                /\ scored_chunks[i].score =
                        SharedWords(user_message_content, scored_chunks[i].kp.text)
                /\ scored_chunks[i].score > 0
                /\ scored_chunks[i].kp \in Range(all_knowledge_points)
        /\ \A kp \in Range(all_knowledge_points) :
                SharedWords(user_message_content, kp.text) > 0
                    => \E i \in DOMAIN scored_chunks : scored_chunks[i].kp = kp
        /\ \A i \in DOMAIN relevant_chunks_for_llm :
                \E j \in DOMAIN scored_chunks :
                    /\ scored_chunks[j].kp.text = relevant_chunks_for_llm[i].text
                    /\ scored_chunks[j].kp.doc_name =
                            relevant_chunks_for_llm[i].original_doc_name
                    /\ scored_chunks[j].kp.chapter_name =
                            relevant_chunks_for_llm[i].chapter_name
                    /\ SharedWords(user_message_content, relevant_chunks_for_llm[i].text) > 0

\* a message with two content words in another case than the texts, a selected
\* chunk that shares both, one that shares one, and a candidate that shares none
C14_Witness ==
    /\ ContextAssembled
    /\ Cardinality(ContentWords(user_message_content)) = 2
    /\ \E i, j \in DOMAIN scored_chunks :
            /\ scored_chunks[i].score = 2
            /\ scored_chunks[j].score = 1
    /\ \E kp \in Range(all_knowledge_points) :
            /\ kp.text # ""
            /\ SharedWords(user_message_content, kp.text) = 0
    /\ Len(relevant_chunks_for_llm) >= 2

\* the positions of the candidates that share a content word with the message
Relevant ==
    { i \in DOMAIN all_knowledge_points :
        SharedWords(user_message_content, all_knowledge_points[i].text) > 0 }

\* candidate i comes before candidate j: its score is higher, or the scores
\* are equal and it is earlier in the input
ComesBefore(i, j) ==
    LET score_i == SharedWords(user_message_content, all_knowledge_points[i].text)
        score_j == SharedWords(user_message_content, all_knowledge_points[j].text)
    IN  score_i > score_j \/ (score_i = score_j /\ i < j)

\* the key of a candidate: document name, chapter name, first 50 characters
CompositeKey(kp) == <<kp.doc_name, kp.chapter_name, prefix(kp.text, KEY_TEXT_CHARS)>>

\* the candidates whose key no candidate before them has
FirstOfKey ==
    { i \in Relevant :
        ~\E j \in Relevant :
            /\ ComesBefore(j, i)
            /\ CompositeKey(all_knowledge_points[j]) = CompositeKey(all_knowledge_points[i]) }

\* the place of such a candidate among them, from 1
PlaceOf(i) == 1 + Cardinality({ j \in FirstOfKey : ComesBefore(j, i) })

\* C15: the selected chunks are the first at most 8 candidates, in descending
\* score order with equal scores in input order, whose keys (document name,
\* chapter name, first 50 characters of the text) are pairwise distinct; the
\* i-th of them has the marker "[i]", and the citations have the same length
\* and order with the ids "1".."n"
C15_SelectionIsFirstEightDistinctKeys ==
    ContextAssembled =>
        /\ Len(relevant_chunks_for_llm) =
                Cardinality({ i \in FirstOfKey : PlaceOf(i) <= MAX_CONTEXT_CHUNKS })
        /\ Len(citations_for_response) = Len(relevant_chunks_for_llm)
        /\ \A i \in FirstOfKey :
                PlaceOf(i) <= MAX_CONTEXT_CHUNKS /\ PlaceOf(i) <= Len(relevant_chunks_for_llm) =>
                    LET n == PlaceOf(i)
                        kp == all_knowledge_points[i]
                    IN  /\ relevant_chunks_for_llm[n] =
                                [ id |-> "[" \o ToString(n) \o "]",
                                  text |-> kp.text,
                                  original_doc_name |-> kp.doc_name,
                                  chapter_name |-> kp.chapter_name ]
                        /\ citations_for_response[n] =
                                [ id |-> ToString(n), doc_name |-> kp.doc_name,
                                  text |-> kp.text ]
        /\ chat_pc = "answered" =>
                final_ai_response_json.citations = citations_for_response

\* sub is part of s
Contains(s, sub) ==
    \E i \in 1..(Len(s) - Len(sub) + 1) : SubSeq(s, i, i + Len(sub) - 1) = sub

\* a citation marker "[1]".."[8]" is part of s
HasCitationMarker(s) ==
    \E n \in 1..MAX_CONTEXT_CHUNKS : Contains(s, "[" \o ToString(n) \o "]")

\* files were chosen, and no candidate shares a content word with the message
NothingRelevant == ContextAssembled /\ related_files # <<>> /\ Relevant = {}

\* C16: when files are chosen but no candidate shares a content word with the
\* message, the citation list is empty and the context says that no related
\* reference material was found, with no reference block and no citation marker
C16_NothingRelevantIsSaid ==
    NothingRelevant =>
        /\ relevant_chunks_for_llm = <<>>
        /\ citations_for_response = <<>>
        /\ final_ai_response_json.citations = <<>>
        /\ context_str = NOTHING_RELEVANT_FOUND
        /\ ~Contains(context_str, "### Reference")
        /\ ~Contains(context_str, FENCE)
        /\ ~HasCitationMarker(context_str)

\* the model answered a message with a content word that none of the texts of
\* the chosen file holds
C16_Witness ==
    /\ NothingRelevant
    /\ chat_pc = "answered"
    /\ ContentWords(user_message_content) # {}
    /\ \E kp \in Range(all_knowledge_points) : kp.text # ""
    /\ context_str = NOTHING_RELEVANT_FOUND

-----------------------------------------------------------------------------
(* app.py: run_processing_pipeline_in_thread *)

\* lines 192-200
scripts_to_run == <<"images_and_ocr.py", "get_catalog.py", "get_segment.py", "get_orgchart.py">>

\* the results of one script: not reached yet, skipped because the file of the
\* script is missing (line 220), subprocess.run raised (line 255), or the
\* process ended: with a return code other than 0 (line 249) or with 0; a
\* script that gives up returns from its main function and ends with 0, as
\* get_catalog.py without text files (get_catalog.py 290-297) or without an
\* outline (329-339) and get_segment.py without catalog.json
\* (get_segment.py 342-344)
Pending == "pending"
FailedResults ==
    {"script_missing", "raised", "exit_nonzero", "no_text_files", "no_outline", "no_catalog"}

\* the processes running after Popen alone: the script runs on
after_popen(running, script_name) == running

\* lines 230-238: subprocess.run returns when the process of the script has
\* ended
after_subprocess_run(running, script_name) == running \ {script_name}

\* how the process of script i can end, given what the scripts before it left
\* on disk
ProcessResults(i, text_files, catalog) ==
    IF i = 1 THEN {"ok", "ok_without_text_files", "exit_nonzero"}
    ELSE IF i = 2
         THEN IF ~text_files THEN {"no_text_files", "exit_nonzero"}
              ELSE {"ok", "no_outline", "exit_nonzero"}
    ELSE IF i = 3
         THEN IF ~catalog THEN {"no_catalog", "exit_nonzero"}
              ELSE {"ok", "exit_nonzero"}
    ELSE {"ok", "exit_nonzero"}

PipelineInit ==
    /\ scripts_present \in SUBSET Range(scripts_to_run)
    /\ script_index = 1
    /\ running_scripts = {}
    /\ started_scripts = <<>>
    /\ script_results = [ i \in DOMAIN scripts_to_run |-> Pending ]
    /\ text_files_exist = FALSE
    /\ catalog_exists = FALSE
    /\ pipeline_pc = "loop"

\* lines 219-222: the file of the script is missing, the loop goes on
SkipMissingScript ==
    /\ pipeline_pc = "loop"
    /\ script_index <= Len(scripts_to_run)
    /\ scripts_to_run[script_index] \notin scripts_present
    /\ script_results' = [script_results EXCEPT ![script_index] = "script_missing"]
    /\ script_index' = script_index + 1
    /\ UNCHANGED <<scripts_present, running_scripts, started_scripts, text_files_exist,
                   catalog_exists, pipeline_pc>>
    /\ UNCHANGED notPipelineVars

\* lines 224-238 and 255-256: subprocess.run starts the process of the
\* script, or raises before there is one and the loop goes on
StartScript ==
    /\ pipeline_pc = "loop"
    /\ script_index <= Len(scripts_to_run)
    /\ scripts_to_run[script_index] \in scripts_present
    /\ \E raises \in BOOLEAN :
          IF raises
          THEN /\ script_results' = [script_results EXCEPT ![script_index] = "raised"]
               /\ script_index' = script_index + 1
               /\ UNCHANGED <<running_scripts, started_scripts, pipeline_pc>>
          ELSE /\ running_scripts' = running_scripts \cup {scripts_to_run[script_index]}
               /\ started_scripts' = Append(started_scripts, scripts_to_run[script_index])
               /\ pipeline_pc' = "in_subprocess_run"
               /\ UNCHANGED <<script_results, script_index>>
    /\ UNCHANGED <<scripts_present, text_files_exist, catalog_exists>>
    /\ UNCHANGED notPipelineVars

\* lines 230-253: the process ends, subprocess.run returns, the result is
\* logged and the loop goes on
ScriptEnds ==
    /\ pipeline_pc = "in_subprocess_run"
    /\ \E result \in ProcessResults(script_index, text_files_exist, catalog_exists) :
          /\ script_results' = [script_results EXCEPT ![script_index] = result]
          /\ text_files_exist' = IF script_index = 1 THEN result = "ok" ELSE text_files_exist
          /\ catalog_exists' = IF script_index = 2 THEN result = "ok" ELSE catalog_exists
    /\ running_scripts' = after_subprocess_run(running_scripts, scripts_to_run[script_index])
    /\ script_index' = script_index + 1
    /\ pipeline_pc' = "loop"
    /\ UNCHANGED <<scripts_present, started_scripts>>
    /\ UNCHANGED notPipelineVars

\* line 258
PipelineFinishes ==
    /\ pipeline_pc = "loop"
    /\ script_index > Len(scripts_to_run)
    /\ pipeline_pc' = "finished"
    /\ UNCHANGED <<scripts_present, script_index, running_scripts, started_scripts,
                   script_results, text_files_exist, catalog_exists>>
    /\ UNCHANGED notPipelineVars

\* the place of a script in scripts_to_run
StepOf(script_name) == CHOOSE i \in DOMAIN scripts_to_run : scripts_to_run[i] = script_name

\* C17: the scripts of one run are started in the order OCR, catalog,
\* segmentation, org chart, at most one process runs at a time, and when a
\* script has been started the process of every script started before it has
\* ended
C17_StepsInOrderNeverOverlap ==
    /\ Cardinality(running_scripts) <= 1
    /\ \A k, l \in DOMAIN started_scripts :
            k < l => StepOf(started_scripts[k]) < StepOf(started_scripts[l])
    /\ \A k \in DOMAIN started_scripts :
            k < Len(started_scripts) =>
                /\ started_scripts[k] \notin running_scripts
                /\ script_results[StepOf(started_scripts[k])] # Pending

\* a run that started all four scripts and is over
C17_Witness ==
    /\ pipeline_pc = "finished"
    /\ started_scripts = scripts_to_run
    /\ running_scripts = {}

\* C18: after a step that failed (return code, exception, missing script, no
\* text files, no outline) no later script is started
C18_FailureAbortsIngestion ==
    \A i \in DOMAIN scripts_to_run :
        script_results[i] \in FailedResults =>
            \A j \in DOMAIN scripts_to_run :
                j > i => scripts_to_run[j] \notin Range(started_scripts)

-----------------------------------------------------------------------------
(* app.py: upload_file *)

\* the two requests in flight
MaxUploads == 2

UploadRequests == 1..MaxUploads

\* line 403: os.path.splitext(name)[0]; a dot that starts the name starts no
\* extension
name_without_ext(name) ==
    LET dots == { i \in 1..Len(name) : SubSeq(name, i, i) = "." }
        last_dot == CHOOSE i \in dots : \A j \in dots : j <= i
    IN  IF dots = {} \/ last_dot = 1 THEN name ELSE SubSeq(name, 1, last_dot - 1)

\* line 422
first_dir_name(base_for_dir) == base_for_dir \o "_dir"

\* line 425
numbered_dir_name(base_for_dir, counter) ==
    base_for_dir \o "_" \o ToString(counter) \o "_dir"

\* line 433
script_arg_base_name(base_for_dir, counter) ==
    IF counter = 1 THEN base_for_dir ELSE base_for_dir \o "_" \o ToString(counter - 1)

\* the sanitized names of the uploaded files (line 402)
FileNames == {"Essay.pdf", "Essay_1.pdf"}

\* the directories earlier uploads left in UPLOAD_FOLDER
EarlierDirs == {"Essay_dir", "Essay_1_dir"}

NewUpload(original_filename) ==
    [ pc |-> "request", original_filename |-> original_filename, base_for_dir |-> "",
      processed_dir_full_name |-> "", counter |-> 1, script_arg_base_name |-> "" ]

UploadInit ==
    /\ uploads \in [UploadRequests -> { NewUpload(name) : name \in FileNames }]
    /\ upload_folder \in SUBSET EarlierDirs
    /\ launched_pipelines = {}

\* lines 392-423: the names of the request
UploadBegin(r) ==
    /\ uploads[r].pc = "request"
    /\ LET base == name_without_ext(uploads[r].original_filename)
       IN  uploads' = [uploads EXCEPT ![r].pc = "while",
                                      ![r].base_for_dir = base,
                                      ![r].processed_dir_full_name = first_dir_name(base),
                                      ![r].counter = 1]
    /\ UNCHANGED <<upload_folder, launched_pipelines>>
    /\ UNCHANGED notUploadVars

\* lines 424-426: one test of the while loop
UploadCheckExists(r) ==
    /\ uploads[r].pc = "while"
    /\ IF uploads[r].processed_dir_full_name \in upload_folder
       THEN uploads' = [uploads EXCEPT
                            ![r].processed_dir_full_name =
                                numbered_dir_name(uploads[r].base_for_dir, uploads[r].counter),
                            ![r].counter = uploads[r].counter + 1]
       ELSE uploads' = [uploads EXCEPT ![r].pc = "mkdir"]
    /\ UNCHANGED <<upload_folder, launched_pipelines>>
    /\ UNCHANGED notUploadVars

\* lines 433-437: mkdir(parents=True, exist_ok=True)
UploadMakeDir(r) ==
    /\ uploads[r].pc = "mkdir"
    /\ uploads' = [uploads EXCEPT
                        ![r].pc = "save",
                        ![r].script_arg_base_name =
                            script_arg_base_name(uploads[r].base_for_dir, uploads[r].counter)]
    /\ upload_folder' = upload_folder \cup {uploads[r].processed_dir_full_name}
    /\ UNCHANGED launched_pipelines
    /\ UNCHANGED notUploadVars

\* lines 442-481: the file is saved and the thread of the pipeline started, or
\* saving raises and the directory is removed
UploadSaveAndLaunch(r) ==
    /\ uploads[r].pc = "save"
    /\ \E save_raises \in BOOLEAN :
          IF save_raises
          THEN /\ upload_folder' = upload_folder \ {uploads[r].processed_dir_full_name}
               /\ uploads' = [uploads EXCEPT ![r].pc = "failed"]
               /\ UNCHANGED launched_pipelines
          ELSE /\ launched_pipelines' = launched_pipelines \cup
                        { [ request |-> r,
                            textbook_base_name_unique |-> uploads[r].script_arg_base_name,
                            processed_dir_full_name |-> uploads[r].processed_dir_full_name ] }
               /\ uploads' = [uploads EXCEPT ![r].pc = "launched"]
               /\ UNCHANGED upload_folder
    /\ UNCHANGED notUploadVars

\* C19: the pipelines launched for two requests have different processing
\* directories and different script base names
C19_ConcurrentUploadsDisjoint ==
    \A p, q \in launched_pipelines :
        p.request # q.request =>
            /\ p.processed_dir_full_name # q.processed_dir_full_name
            /\ p.textbook_base_name_unique # q.textbook_base_name_unique

-----------------------------------------------------------------------------
(* get_segment.py: process_chapters_for_segmentation *)

\* what the lookup of the text and the LLM give for one leaf: no text
\* (lines 263-268), a failed call, an answer that holds no JSON object, a JSON
\* object without "knowledge_points", knowledge points that are no list of
\* strings (lines 276-290), or a list of strings
LeafOutcomes ==
    {"no_text", "llm_call_failed", "json_not_parsed", "no_knowledge_points_key",
     "not_a_list_of_strings", "knowledge_points"}

\* the knowledge points the LLM finds in leaf k
FoundKps(k) == KpList(<<"kp of " \o ToString(k)>>)

\* lines 263-290 with a failing leaf left as it is
knowledge_points_keeping_old(node, k, outcome) ==
    IF outcome = "knowledge_points" THEN FoundKps(k) ELSE node.knowledge_points

\* lines 263-290: the value stored in chapter_data_node["knowledge_points"]
knowledge_points_of_leaf(node, k, outcome) ==
    IF outcome = "knowledge_points" THEN FoundKps(k) ELSE KpList(<<>>)

\* line 272: str.replace(placeholder, chapter_name) raises TypeError when the
\* "name" of the node is no string; the line is reached when the leaf has text
prompt_raises(node, outcome) == outcome # "no_text" /\ node.name = None

\* lines 244-309: the loop over chapter_nodes[i..]; data are the nodes as
\* changed so far, visited the nodes the loop has reached
RECURSIVE process_chapters_for_segmentation(_, _, _, _, _)
process_chapters_for_segmentation(data, outcomes, chapter_nodes, i, visited) ==
    IF i > Len(chapter_nodes) THEN [data |-> data, visited |-> visited, raised |-> FALSE]
    ELSE LET k == chapter_nodes[i]
             seen == visited \cup {k}
         IN  IF data[k].type = "leaf"
             THEN IF prompt_raises(data[k], outcomes[k])
                  THEN [data |-> data, visited |-> seen, raised |-> TRUE]
                  ELSE process_chapters_for_segmentation(
                            [data EXCEPT ![k].knowledge_points =
                                knowledge_points_of_leaf(data[k], k, outcomes[k])],
                            outcomes, chapter_nodes, i + 1, seen)
             ELSE IF children_of(data, k) # <<>>
             THEN LET below == process_chapters_for_segmentation(
                                    data, outcomes, children_of(data, k), 1, seen)
                  IN  IF below.raised THEN below
                      ELSE process_chapters_for_segmentation(
                                below.data, outcomes, chapter_nodes, i + 1, below.visited)
             ELSE process_chapters_for_segmentation(data, outcomes, chapter_nodes, i + 1, seen)

\* the largest catalog of varied shape, in nodes
MaxChapters == 3

\* a node of catalog.json
ChapterNode(parent, type, name, knowledge_points) ==
    [parent |-> parent, type |-> type, name |-> name, knowledge_points |-> knowledge_points]

\* catalogs of every shape, with named nodes that hold no knowledge points yet
RECURSIVE ChapterTrees(_)
ChapterTrees(n) ==
    IF n = 0 THEN { <<>> }
    ELSE { Append(cat, ChapterNode(parent, type, "ch", KpMissing)) :
             cat \in ChapterTrees(n - 1), parent \in 0..(n - 1), type \in {"leaf", "tree"} }

\* the leaves of a chapter with two leaves: with or without a name, with or
\* without knowledge points of an earlier run
LeafChoices ==
    { ChapterNode(1, "leaf", name, kps) :
        name \in {"ch", None}, kps \in {KpMissing, KpList(<<"old">>)} }

TwoLeafChapters ==
    { <<ChapterNode(0, "tree", "ch", KpMissing), a, b>> : a \in LeafChoices, b \in LeafChoices }

SegmentInit ==
    /\ \/ /\ catalog_before \in UNION { ChapterTrees(n) : n \in 1..MaxChapters }
          /\ leaf_outcomes \in [DOMAIN catalog_before -> {"no_text", "knowledge_points"}]
       \/ /\ catalog_before \in TwoLeafChapters
          /\ leaf_outcomes \in [DOMAIN catalog_before -> LeafOutcomes]
          /\ leaf_outcomes[1] = "no_text"
    /\ catalog_after = catalog_before
    /\ visited_nodes = {}
    /\ segment_pc = "call"

\* main_orchestrator, lines 368-374: the traversal of catalog_data["chapters"]
ProcessChaptersForSegmentation ==
    /\ segment_pc = "call"
    /\ LET done == process_chapters_for_segmentation(
                        catalog_before, leaf_outcomes, children_of(catalog_before, 0), 1, {})
       IN  /\ catalog_after' = done.data
           /\ visited_nodes' = done.visited
           /\ segment_pc' = IF done.raised THEN "raised" ELSE "returned"
    /\ UNCHANGED <<catalog_before, leaf_outcomes>>
    /\ UNCHANGED notSegmentVars

\* the nodes of a list the traversal is to go through: no node above them is a
\* leaf
RECURSIVE IsInTraversal(_)
IsInTraversal(k) ==
    LET parent == catalog_before[k].parent
    IN  parent = 0 \/ (catalog_before[parent].type # "leaf" /\ IsInTraversal(parent))

\* the traversal reached leaf k, and its text lookup, LLM call or JSON parse
\* failed
LeafFailed(k) ==
    /\ k \in visited_nodes
    /\ catalog_before[k].type = "leaf"
    /\ leaf_outcomes[k] # "knowledge_points"
    /\ ~prompt_raises(catalog_before[k], leaf_outcomes[k])

\* C20: a leaf whose text lookup, LLM call or JSON parse failed has the empty
\* list as knowledge_points and the traversal went on; every other node is as
\* it was, but for the knowledge points found for a leaf; and after the
\* traversal every leaf it went through has a knowledge_points list
C20_LeafFailureStaysLocal ==
    segment_pc \in {"returned", "raised"} =>
        /\ \A k \in DOMAIN catalog_before :
                /\ LeafFailed(k) => catalog_after[k].knowledge_points = KpList(<<>>)
                /\ ~LeafFailed(k) =>
                        \/ catalog_after[k] = catalog_before[k]
                        \/ /\ k \in visited_nodes
                           /\ catalog_before[k].type = "leaf"
                           /\ leaf_outcomes[k] = "knowledge_points"
                           /\ catalog_after[k] =
                                [catalog_before[k] EXCEPT !.knowledge_points = FoundKps(k)]
                /\ catalog_after[k].parent = catalog_before[k].parent
                /\ catalog_after[k].type = catalog_before[k].type
                /\ catalog_after[k].name = catalog_before[k].name
        /\ segment_pc = "raised" =>
                \E k \in visited_nodes : prompt_raises(catalog_before[k], leaf_outcomes[k])
        /\ segment_pc = "returned" =>
                /\ visited_nodes = { k \in DOMAIN catalog_before : IsInTraversal(k) }
                /\ \A k \in visited_nodes :
                        catalog_before[k].type = "leaf" =>
                            catalog_after[k].knowledge_points.kind = "list"

\* the first leaf failed and lost the knowledge points of an earlier run, the
\* traversal went on and stored the knowledge points found for the second
C20_Witness ==
    /\ segment_pc = "returned"
    /\ Len(catalog_before) = 3
    /\ LeafFailed(2)
    /\ leaf_outcomes[2] = "json_not_parsed"
    /\ catalog_before[2].knowledge_points = KpList(<<"old">>)
    /\ catalog_after[2].knowledge_points = KpList(<<>>)
    /\ catalog_after[3].knowledge_points = FoundKps(3)

-----------------------------------------------------------------------------
(* get_questions_orgchart.py: the loops of filter_textbook_orgchart, step by step *)

\* the largest node list whose filtering is followed step by step
MaxWalkNodes == 3

\* lines 184-189 without the test "parent_id not in kept_node_ids"
walk_goes_on_to_kept_parents(nm, current_trace_id, kept) ==
    /\ current_trace_id \in DOMAIN nm
    /\ Truthy(nm[current_trace_id].pid)
    /\ lower(nm[current_trace_id].pid) # "null"
    /\ nm[current_trace_id].pid # ""
    /\ nm[current_trace_id].pid \in DOMAIN nm

\* lines 183-189: the iteration of the upward walk at current_trace_id keeps the
\* parent and goes on from it
walk_goes_on(nm, current_trace_id, kept) ==
    /\ current_trace_id \in DOMAIN nm
    /\ Truthy(nm[current_trace_id].pid)
    /\ lower(nm[current_trace_id].pid) # "null"
    /\ nm[current_trace_id].pid # ""
    /\ nm[current_trace_id].pid \notin kept
    /\ nm[current_trace_id].pid \in DOMAIN nm

WalkInit ==
    /\ \E n \in 0..MaxWalkNodes :
          /\ walk_nodes \in DistinctIdLists(n) \cup (IF n = 3 THEN SharedIdLists ELSE {})
          /\ walk_order \in SetOrders(n)
    /\ walk_targets \in TargetSets
    /\ walk_descendant_q = <<>>
    /\ walk_kept_node_ids = {}
    /\ walk_appended = <<>>
    /\ walk_to_trace = <<>>
    /\ walk_current_trace_id = None
    /\ walk_pc = "call"

\* lines 118-163: the early return for an empty list, else the roots and the
\* name matches are kept and the matches are queued
WalkStart ==
    /\ walk_pc = "call"
    /\ IF walk_nodes = <<>>
       THEN /\ walk_pc' = "returned"
            /\ UNCHANGED <<walk_descendant_q, walk_kept_node_ids>>
       ELSE LET matched == initially_matched_ids_by_name(walk_nodes, walk_targets)
            IN  /\ walk_kept_node_ids' =
                       Range(root_node_ids_found(walk_nodes)) \cup matched
                /\ walk_descendant_q' = SetToList(matched, walk_order)
                /\ walk_pc' = "descendants"
    /\ UNCHANGED <<walk_nodes, walk_targets, walk_order, walk_appended, walk_to_trace,
                   walk_current_trace_id>>
    /\ UNCHANGED notWalkVars

\* lines 165-174: one iteration of "while descendant_q"
WalkExpand ==
    /\ walk_pc = "descendants"
    /\ walk_descendant_q # <<>>
    /\ LET r == ExpandChildren(
                    parent_to_children_map(walk_nodes, Head(walk_descendant_q)),
                    walk_kept_node_ids, Tail(walk_descendant_q))
       IN  /\ walk_kept_node_ids' = r.kept
           /\ walk_descendant_q' = r.q
           /\ walk_appended' =
                  walk_appended \o SubSeq(r.q, Len(walk_descendant_q), Len(r.q))
    /\ UNCHANGED <<walk_nodes, walk_targets, walk_order, walk_to_trace,
                   walk_current_trace_id, walk_pc>>
    /\ UNCHANGED notWalkVars

\* lines 165 and 180: the queue is empty, the ids kept so far are listed
WalkListKept ==
    /\ walk_pc = "descendants"
    /\ walk_descendant_q = <<>>
    /\ walk_to_trace' = SetToList(walk_kept_node_ids, walk_order)
    /\ walk_pc' = "for"
    /\ UNCHANGED <<walk_nodes, walk_targets, walk_order, walk_descendant_q,
                   walk_kept_node_ids, walk_appended, walk_current_trace_id>>
    /\ UNCHANGED notWalkVars

\* lines 181-182: the next id of the list starts an upward walk
WalkNextTrace ==
    /\ walk_pc = "for"
    /\ walk_to_trace # <<>>
    /\ walk_current_trace_id' = Head(walk_to_trace)
    /\ walk_to_trace' = Tail(walk_to_trace)
    /\ walk_pc' = "while"
    /\ UNCHANGED <<walk_nodes, walk_targets, walk_order, walk_descendant_q,
                   walk_kept_node_ids, walk_appended>>
    /\ UNCHANGED notWalkVars

\* lines 183-194: one iteration of "while current_trace_id in node_map"
WalkTraceStep ==
    /\ walk_pc = "while"
    /\ IF walk_goes_on(node_map(walk_nodes), walk_current_trace_id, walk_kept_node_ids)
       THEN LET parent_id == node_map(walk_nodes)[walk_current_trace_id].pid
            IN  /\ walk_kept_node_ids' = walk_kept_node_ids \cup {parent_id}
                /\ walk_current_trace_id' = parent_id
                /\ UNCHANGED walk_pc
       ELSE /\ walk_pc' = "for"
            /\ UNCHANGED <<walk_kept_node_ids, walk_current_trace_id>>
    /\ UNCHANGED <<walk_nodes, walk_targets, walk_order, walk_descendant_q,
                   walk_appended, walk_to_trace>>
    /\ UNCHANGED notWalkVars

\* lines 180 and 196-202: the list is exhausted, the function returns
WalkReturn ==
    /\ walk_pc = "for"
    /\ walk_to_trace = <<>>
    /\ walk_pc' = "returned"
    /\ UNCHANGED <<walk_nodes, walk_targets, walk_order, walk_descendant_q,
                   walk_kept_node_ids, walk_appended, walk_to_trace,
                   walk_current_trace_id>>
    /\ UNCHANGED notWalkVars

-----------------------------------------------------------------------------
(* C26: the loops of the filter end *)

\* the step-by-step run keeps the ids the function keeps
WalkKeepsWhatTheFilterKeeps ==
    (walk_pc = "returned" /\ walk_nodes # <<>>) =>
        walk_kept_node_ids = kept_node_ids(walk_nodes, walk_targets, walk_order)

\* no id is appended to the queue twice, and none that was matched by name
AppendedAtMostOnce ==
    /\ \A i, j \in DOMAIN walk_appended : walk_appended[i] = walk_appended[j] => i = j
    /\ \A i \in DOMAIN walk_appended :
          walk_appended[i] \notin initially_matched_ids_by_name(walk_nodes, walk_targets)

\* an iteration of an upward walk that goes on adds an id to the kept ids
ContinuingIterationAddsAnId ==
    (walk_pc = "while" /\ walk_pc' = "while") =>
        /\ walk_kept_node_ids \subseteq walk_kept_node_ids'
        /\ walk_kept_node_ids' # walk_kept_node_ids

\* C26: on every node list, also with pid cycles and shared ids, the filter
\* returns; the descendant expansion appends every id to its queue at most
\* once, and every iteration of an upward walk that goes on adds a new id to
\* the kept ids.
C26_FilterTerminates ==
    /\ <>(walk_pc = "returned")
    /\ []AppendedAtMostOnce
    /\ [][ContinuingIterationAddsAnId]_vars

\* C26 witness: the filter has returned on n1 <- n2 <- n3 where n1 names itself
\* as parent (a pid cycle) and only n2's name is a target: n3 was appended to
\* the queue as a child of n2, and n1 was kept by the upward walk from n2,
\* which stopped at n1 because n1's parent was kept by then.
C26_Witness ==
    /\ walk_pc = "returned"
    /\ Len(walk_nodes) = 3
    /\ walk_nodes[1].pid = "n1" /\ walk_nodes[2].pid = "n1" /\ walk_nodes[3].pid = "n2"
    /\ walk_nodes[2].name \in walk_targets
    /\ walk_nodes[1].name \notin walk_targets
    /\ walk_nodes[3].name \notin walk_targets
    /\ walk_appended = <<"n3">>
    /\ walk_kept_node_ids = {"n1", "n2", "n3"}

-----------------------------------------------------------------------------
(* segment.py: the stitching of the batch results *)

\* previous_incomplete_row_data = None
NoRow == [parts |-> <<>>, text |-> None]

\* row j of the CSV data of batch k, as csv.DictReader gives it: a row with
\* fewer than four fields has text None (restval).  parts names the rows of
\* the LLM output a row of the result was made from.
ParsedRow(k, j, text) ==
    [parts |-> << "b" \o ToString(k) \o "r" \o ToString(j) >>, text |-> text]

\* lines 303-307: list(csv_reader)
current_batch_rows_as_dicts(batch, k) ==
    [ j \in DOMAIN batch.rows |-> ParsedRow(k, j, batch.rows[j]) ]

\* lines 338-339: x.get('text', '') is None for a short row, and
\* None.strip() raises AttributeError
strip_raises(row) == row.text = None

\* lines 338-346
merged_text(previous, first_row_this_batch) ==
    LET text_a == strip(previous.text)
        text_b == strip(first_row_this_batch.text)
    IN  IF text_a # "" /\ text_b # "" THEN text_a \o " " \o text_b
        ELSE IF text_a # "" THEN text_a
        ELSE text_b

\* lines 349-354
merged_row(previous, first_row_this_batch) ==
    [parts |-> previous.parts \o first_row_this_batch.parts,
     text  |-> merged_text(previous, first_row_this_batch)]

\* lines 387-411: the end of the batch; st = [final, previous, raised]
end_of_batch(st, processed_rows_for_this_batch, end_flag_for_stitching) ==
    IF end_flag_for_stitching = "0"
    THEN IF processed_rows_for_this_batch # <<>>
         THEN [st EXCEPT
                 !.previous = processed_rows_for_this_batch[Len(processed_rows_for_this_batch)],
                 !.final = st.final \o SubSeq(processed_rows_for_this_batch, 1,
                                              Len(processed_rows_for_this_batch) - 1)]
         ELSE st
    ELSE [st EXCEPT !.final = st.final \o processed_rows_for_this_batch,
                    !.previous = NoRow]

\* lines 281-411: one iteration of the loop over all_batch_responses, for the
\* k-th batch; st = [final, previous, raised]
stitch_batch(st, batch, k) ==
    LET start_flag_for_stitching == SubSeq(batch.flags, 2, 2)
        end_flag_for_stitching   == SubSeq(batch.flags, 1, 1)
        rows == current_batch_rows_as_dicts(batch, k)
    IN  IF batch.csv = "empty" \/ rows = <<>>                     \* lines 291-298, 308-314
        THEN IF st.previous # NoRow /\ start_flag_for_stitching = "3"
             THEN [st EXCEPT !.final = Append(st.final, st.previous), !.previous = NoRow]
             ELSE st
        ELSE IF batch.csv = "unparsable"                           \* lines 315-325
        THEN IF st.previous # NoRow
             THEN [st EXCEPT !.final = Append(st.final, st.previous), !.previous = NoRow]
             ELSE st
        ELSE IF start_flag_for_stitching = "2" /\ st.previous # NoRow   \* lines 332-357
        THEN IF strip_raises(st.previous) \/ strip_raises(rows[1])
             THEN [st EXCEPT !.raised = TRUE]
             ELSE end_of_batch([st EXCEPT !.previous = NoRow],
                               << merged_row(st.previous, rows[1]) >> \o Tail(rows),
                               end_flag_for_stitching)
        ELSE IF start_flag_for_stitching = "3" /\ st.previous # NoRow   \* lines 367-372
        THEN end_of_batch([st EXCEPT !.previous = NoRow], <<st.previous>> \o rows,
                          end_flag_for_stitching)
        ELSE end_of_batch(st, rows, end_flag_for_stitching)

\* the most batch results, and the most rows of one batch
MaxBatches == 3
MaxRows == 2

\* the flags a recorded batch result carries (lines 223-251)
BatchFlags == { "03", "02", "13", "12" }

\* the text field of a parsed row: a text, or None for a row cut short
RowTexts == { "t ", None }

RECURSIVE RowLists(_)
RowLists(n) ==
    IF n = 0 THEN { <<>> }
    ELSE { Append(l, t) : l \in RowLists(n - 1), t \in RowTexts }

\* the batch results: CSV data that is empty, that csv cannot read, or that
\* holds one to MaxRows rows
BatchResults ==
    { [flags |-> f, csv |-> c, rows |-> <<>>] :
         f \in BatchFlags, c \in {"empty", "unparsable"} }
    \cup { [flags |-> f, csv |-> "rows", rows |-> l] :
             f \in BatchFlags, l \in UNION { RowLists(n) : n \in 1..MaxRows } }

RECURSIVE BatchLists(_)
BatchLists(n) ==
    IF n = 0 THEN { <<>> }
    ELSE { Append(l, b) : l \in BatchLists(n - 1), b \in BatchResults }

\* lines 273-274
StitchInit ==
    /\ all_batch_responses \in UNION { BatchLists(n) : n \in 0..MaxBatches }
    /\ stitch_index = 0
    /\ final_stitched_csv_rows = <<>>
    /\ previous_incomplete_row_data = NoRow
    /\ stitch_pc = "loop"

\* lines 281-411: the next batch result is stitched, or the script ends with
\* the AttributeError
StitchBatch ==
    /\ stitch_pc = "loop"
    /\ stitch_index < Len(all_batch_responses)
    /\ LET st == stitch_batch([final |-> final_stitched_csv_rows,
                               previous |-> previous_incomplete_row_data,
                               raised |-> FALSE],
                              all_batch_responses[stitch_index + 1], stitch_index + 1)
       IN  /\ final_stitched_csv_rows' = st.final
           /\ previous_incomplete_row_data' = st.previous
           /\ stitch_pc' = IF st.raised THEN "raised" ELSE "loop"
    /\ stitch_index' = stitch_index + 1
    /\ UNCHANGED all_batch_responses
    /\ UNCHANGED notStitchVars

\* lines 415-417: after the loop a pending row is appended, and the rows are
\* handed to the writer
StitchFinalCheck ==
    /\ stitch_pc = "loop"
    /\ stitch_index = Len(all_batch_responses)
    /\ final_stitched_csv_rows' =
           IF previous_incomplete_row_data # NoRow
           THEN Append(final_stitched_csv_rows, previous_incomplete_row_data)
           ELSE final_stitched_csv_rows
    /\ stitch_pc' = "stitched"
    /\ UNCHANGED <<all_batch_responses, stitch_index, previous_incomplete_row_data>>
    /\ UNCHANGED notStitchVars

-----------------------------------------------------------------------------
(* C28: no parsed row is lost *)

\* the names of the rows parsed from batches 1..n, in order
RECURSIVE ParsedRowNames(_)
ParsedRowNames(n) ==
    IF n = 0 THEN <<>>
    ELSE ParsedRowNames(n - 1)
           \o (IF all_batch_responses[n].csv = "rows"
               THEN [ j \in DOMAIN all_batch_responses[n].rows |->
                        ParsedRow(n, j, None).parts[1] ]
               ELSE <<>>)

\* the names of the parsed rows the rows of a list were made from
RECURSIVE PartsOf(_)
PartsOf(rows) ==
    IF rows = <<>> THEN <<>> ELSE rows[1].parts \o PartsOf(Tail(rows))

\* the batch a parsed row of this name came from
BatchOf(name) ==
    CHOOSE k \in 1..MaxBatches : SubSeq(name, 1, 2) = "b" \o ToString(k)

\* a row of the result is a parsed row on its own, or a parsed row merged with
\* one row of the batch after it
AloneOrMergedWithOneRow(row) ==
    \/ Len(row.parts) = 1
    \/ Len(row.parts) = 2 /\ BatchOf(row.parts[2]) = BatchOf(row.parts[1]) + 1

\* C28: whatever the batch results, the stitching ends with every parsed row
\* in the final list exactly once, on its own or merged with one row of the
\* following batch; while it runs, every row parsed so far is in the final
\* list or is the one pending row.
C28_NoParsedRowLost ==
    /\ stitch_pc # "raised"
    /\ stitch_pc = "loop" =>
          PartsOf(final_stitched_csv_rows) \o previous_incomplete_row_data.parts
              = ParsedRowNames(stitch_index)
    /\ stitch_pc = "stitched" =>
          /\ PartsOf(final_stitched_csv_rows) = ParsedRowNames(Len(all_batch_responses))
          /\ \A i \in DOMAIN final_stitched_csv_rows :
                AloneOrMergedWithOneRow(final_stitched_csv_rows[i])

-----------------------------------------------------------------------------
(* segment.py: the batch loop *)

\* the largest TOTAL_PAGES and PAGES_PER_BATCH of the model
MaxTotalPages == 5
MaxPagesPerBatch == 3

Min(a, b) == IF a <= b THEN a ELSE b

\* a step that jumps over the page after the batch
step_past_the_batch(pages_per_batch) == pages_per_batch + 1

\* line 139: step = max(1, PAGES_PER_BATCH - 1 if PAGES_PER_BATCH > 1 else 1)
step(pages_per_batch) ==
    LET s == IF pages_per_batch > 1 THEN pages_per_batch - 1 ELSE 1
    IN  IF s >= 1 THEN s ELSE 1

\* line 145
end_page_num_for_batch(start_page, pages_per_batch, total_pages) ==
    Min(start_page + pages_per_batch - 1, total_pages)

\* what happens to a batch: no page of it has a text file (lines 152-156),
\* the API call fails or its stream breaks (lines 213-220, 252-254), or the
\* answer is recorded (lines 223-251)
BatchOutcomes == { "no_text", "api_failed", "recorded" }

\* lines 135-141
BatchInit ==
    /\ TOTAL_PAGES \in 0..MaxTotalPages
    /\ PAGES_PER_BATCH \in 1..MaxPagesPerBatch
    /\ current_page = 1
    /\ attempted_batches = <<>>
    /\ recorded_batches = <<>>
    /\ batch_pc = "loop"

\* lines 143-269: one iteration of "while current_page <= TOTAL_PAGES"
BatchIteration ==
    /\ batch_pc = "loop"
    /\ current_page <= TOTAL_PAGES
    /\ \E outcome \in BatchOutcomes :
          LET start_page_num_for_batch == current_page
              end_page == end_page_num_for_batch(current_page, PAGES_PER_BATCH, TOTAL_PAGES)
              range == [start_page_processed |-> start_page_num_for_batch,
                        end_page_processed |-> end_page]
          IN  /\ attempted_batches' = Append(attempted_batches, range)
              /\ recorded_batches' =
                     IF outcome = "recorded" THEN Append(recorded_batches, range)
                     ELSE recorded_batches
              /\ IF outcome = "no_text"
                 THEN /\ current_page' = end_page + 1
                      /\ UNCHANGED batch_pc
                 ELSE IF end_page >= TOTAL_PAGES
                 THEN /\ batch_pc' = "done"
                      /\ UNCHANGED current_page
                 ELSE /\ current_page' =
                             Min(current_page + step(PAGES_PER_BATCH), TOTAL_PAGES + 1)
                      /\ UNCHANGED batch_pc
    /\ UNCHANGED <<TOTAL_PAGES, PAGES_PER_BATCH>>
    /\ UNCHANGED notBatchVars

\* line 143: the loop condition is false
BatchLoopEnds ==
    /\ batch_pc = "loop"
    /\ current_page > TOTAL_PAGES
    /\ batch_pc' = "done"
    /\ UNCHANGED <<TOTAL_PAGES, PAGES_PER_BATCH, current_page, attempted_batches,
                   recorded_batches>>
    /\ UNCHANGED notBatchVars

-----------------------------------------------------------------------------
(* C29: the batch loop ends and leaves no page out *)

\* the start pages of a list of batches increase strictly
StartPagesIncrease(batches) ==
    \A i, j \in DOMAIN batches :
        i < j => batches[i].start_page_processed < batches[j].start_page_processed

\* every page lies in the range of an attempted batch
EveryPageAttempted ==
    \A p \in 1..TOTAL_PAGES :
        \E i \in DOMAIN attempted_batches :
            /\ attempted_batches[i].start_page_processed <= p
            /\ p <= attempted_batches[i].end_page_processed

\* C29: for every TOTAL_PAGES >= 0 and PAGES_PER_BATCH >= 1 the batch loop
\* ends; the start page of the batches increases strictly, also after a batch
\* without text or with a failed API call; when the loop has ended every page
\* 1..TOTAL_PAGES lies in the range of an attempted batch; the results are
\* recorded in increasing order of start page.
C29_BatchLoopTerminatesAndCovers ==
    /\ <>(batch_pc = "done")
    /\ [](StartPagesIncrease(attempted_batches) /\ StartPagesIncrease(recorded_batches))
    /\ [](batch_pc = "done" => EveryPageAttempted)

\* C29 witness: five pages in batches of three: the batch 1-3 was recorded,
\* the batch 3-5 has failed at the API, and the loop has ended.
C29_Witness ==
    /\ batch_pc = "done"
    /\ TOTAL_PAGES = 5 /\ PAGES_PER_BATCH = 3
    /\ attempted_batches = << [start_page_processed |-> 1, end_page_processed |-> 3],
                              [start_page_processed |-> 3, end_page_processed |-> 5] >>
    /\ recorded_batches = << [start_page_processed |-> 1, end_page_processed |-> 3] >>

-----------------------------------------------------------------------------
(* app.py: the chats kept by send_chat_message and read by get_chat_messages *)

\* the most requests of a run of the server
MaxRequests == 3

\* the chatId of a request for a chat the server has no record of
UnknownChatId == "c_gone"

\* the message of a request: empty, or one of two questions
RequestMessages == { "", "q1", "q2" }

\* no request was answered yet
NoResponse == [status |-> 0, chatId |-> None, message |-> "", text |-> ""]

\* dict.get(key, []) on mock_chat_messages
messages_get(messages, chat_id) ==
    IF chat_id \in DOMAIN messages THEN messages[chat_id] ELSE <<>>

\* lines 508-521: the messages get_chat_messages returns for chat_id
get_chat_messages(chat_id) == messages_get(mock_chat_messages, chat_id)

\* lines 568-574 and 799-806: the list got with .get(chat_id, []) is changed
\* in place; when chat_id is no key the list is a new one that no dictionary
\* holds
keep_message_list(messages, chat_id, list) ==
    IF chat_id \in DOMAIN messages THEN [messages EXCEPT ![chat_id] = list]
    ELSE messages

\* line 549: f'c{int(time.time() * 1000)}'
new_chat_id_at(ms) == "c" \o ToString(ms)

\* lines 86-87, load_mock_data without a data file
StoreInit ==
    /\ mock_chat_history = <<>>
    /\ mock_chat_messages = << >>
    /\ server_time_ms = 1
    /\ chat_response = NoResponse
    /\ requests_handled = 0

\* send_chat_message, lines 527-575 and 769-821: one request with this message
\* and chatId; the model answers or the call raises.  The call of the model
\* takes more than a millisecond.
SendChatMessageToChat(message, chat_id, completion_raises) ==
    /\ requests_handled < MaxRequests
    /\ requests_handled' = requests_handled + 1
    /\ server_time_ms' = server_time_ms + 1
    /\ IF ~Truthy(message)
       THEN /\ chat_response' = [status |-> 400, chatId |-> None, message |-> message,
                                 text |-> ""]
            /\ UNCHANGED <<mock_chat_history, mock_chat_messages>>
       ELSE LET new_chat_id == IF ~Truthy(chat_id) THEN new_chat_id_at(server_time_ms)
                               ELSE chat_id
                history1 == IF ~Truthy(chat_id)
                            THEN << [id |-> new_chat_id] >> \o mock_chat_history
                            ELSE mock_chat_history
                messages1 == IF ~Truthy(chat_id)
                             THEN (new_chat_id :> <<>>) @@ mock_chat_messages
                             ELSE mock_chat_messages
                list1 == Append(messages_get(messages1, new_chat_id),
                                [sender |-> "user", content |-> message])
                list2 == Append(list1, [sender |-> "ai", content |-> "answer"])
            IN  /\ mock_chat_history' = history1
                /\ IF completion_raises
                   THEN /\ mock_chat_messages' =
                               keep_message_list(messages1, new_chat_id, list1)
                        /\ chat_response' = [status |-> 500, chatId |-> None,
                                             message |-> message, text |-> "error"]
                   ELSE /\ mock_chat_messages' =
                               keep_message_list(messages1, new_chat_id, list2)
                        /\ chat_response' = [status |-> 200, chatId |-> new_chat_id,
                                             message |-> message, text |-> "answer"]
    /\ UNCHANGED notStoreVars

\* the chat ids a client may send: none, one the server gave out, or one the
\* server has no record of
RequestChatIds == {None, UnknownChatId} \cup DOMAIN mock_chat_messages

-----------------------------------------------------------------------------
(* C30: an answered chat can be read back *)

\* C30: after send_chat_message answered 200 with chat id X, for a new chat,
\* a known chat or an id the server did not know, get_chat_messages(X) ends
\* with the user message of the request followed by its AI reply, and X has an
\* entry in the chat history.
C30_AnsweredChatIsStored ==
    chat_response.status = 200 =>
        LET messages == get_chat_messages(chat_response.chatId)
            n == Len(messages)
        IN  /\ n >= 2
            /\ messages[n - 1] = [sender |-> "user", content |-> chat_response.message]
            /\ messages[n] = [sender |-> "ai", content |-> chat_response.text]
            /\ \E i \in DOMAIN mock_chat_history :
                  mock_chat_history[i].id = chat_response.chatId

-----------------------------------------------------------------------------
(* Specifications *)

FilterIdle ==
    /\ all_textbook_nodes = <<>>
    /\ target_kp_names = {}
    /\ set_order = <<>>
    /\ final_filtered_node_list = <<>>
    /\ filter_pc = "idle"

OrgchartIdle ==
    /\ catalog_data = <<>>
    /\ llm_replies = <<>>
    /\ orgchart_chapter_dir = <<>>
    /\ textbook_orgchart = <<>>
    /\ orgchart_pc = "idle"

OffsetIdle ==
    /\ initial_structure = <<>>
    /\ catalog_json = <<>>
    /\ offset_pc = "idle"

EmbedIdle ==
    /\ catalog_with_segments = UnreadableFile
    /\ knowledge_points_texts = <<>>
    /\ faiss_index_file = AbsentFile
    /\ mapping_file = AbsentFile
    /\ embed_fault = NoFault
    /\ embed_pc = "idle"

SearchIdle ==
    /\ question_str = ""
    /\ top_k_to_search = SEARCH_TOP_K
    /\ faiss_index_obj = <<>>
    /\ id_to_text_mapping_list = <<>>
    /\ faiss_search_k = NotSearched
    /\ similar_results = <<>>
    /\ search_pc = "idle"

ChatIdle ==
    /\ user_message_content = ""
    /\ related_files = <<>>
    /\ all_knowledge_points = <<>>
    /\ scored_chunks = <<>>
    /\ relevant_chunks_for_llm = <<>>
    /\ citations_for_response = <<>>
    /\ context_str = ""
    /\ final_ai_response_json = [text |-> "unavailable", citations |-> <<>>]
    /\ chat_pc = "idle"

PipelineIdle ==
    /\ scripts_present = {}
    /\ script_index = 1
    /\ running_scripts = {}
    /\ started_scripts = <<>>
    /\ script_results = <<>>
    /\ text_files_exist = FALSE
    /\ catalog_exists = FALSE
    /\ pipeline_pc = "idle"

UploadIdle ==
    /\ uploads = <<>>
    /\ upload_folder = {}
    /\ launched_pipelines = {}

SegmentIdle ==
    /\ catalog_before = <<>>
    /\ leaf_outcomes = <<>>
    /\ catalog_after = <<>>
    /\ visited_nodes = {}
    /\ segment_pc = "idle"

WalkIdle ==
    /\ walk_nodes = <<>>
    /\ walk_targets = {}
    /\ walk_order = <<>>
    /\ walk_descendant_q = <<>>
    /\ walk_kept_node_ids = {}
    /\ walk_appended = <<>>
    /\ walk_to_trace = <<>>
    /\ walk_current_trace_id = None
    /\ walk_pc = "idle"

StitchIdle ==
    /\ all_batch_responses = <<>>
    /\ stitch_index = 0
    /\ final_stitched_csv_rows = <<>>
    /\ previous_incomplete_row_data = NoRow
    /\ stitch_pc = "idle"

BatchIdle ==
    /\ TOTAL_PAGES = 0
    /\ PAGES_PER_BATCH = 1
    /\ current_page = 1
    /\ attempted_batches = <<>>
    /\ recorded_batches = <<>>
    /\ batch_pc = "idle"

StoreIdle ==
    /\ mock_chat_history = <<>>
    /\ mock_chat_messages = << >>
    /\ server_time_ms = 0
    /\ chat_response = NoResponse
    /\ requests_handled = 0

\* the sub-graph filter alone
SpecFilterInit == FilterInit /\ OrgchartIdle /\ OffsetIdle /\ EmbedIdle /\ SearchIdle /\ ChatIdle /\ PipelineIdle /\ UploadIdle /\ SegmentIdle /\ WalkIdle /\ StitchIdle /\ BatchIdle /\ StoreIdle
SpecFilterNext == FilterTextbookOrgchart
SpecFilter == SpecFilterInit /\ [][SpecFilterNext]_vars

\* one run of get_orgchart.main
SpecOrgchartInit == FilterIdle /\ OrgchartInit /\ OffsetIdle /\ EmbedIdle /\ SearchIdle /\ ChatIdle /\ PipelineIdle /\ UploadIdle /\ SegmentIdle /\ WalkIdle /\ StitchIdle /\ BatchIdle /\ StoreIdle
SpecOrgchartNext == TraverseAndProcessLeaves \/ MergeAllOrgchartData
SpecOrgchart == SpecOrgchartInit /\ [][SpecOrgchartNext]_vars

\* a second run of get_orgchart.main for a document that was built before
SpecRebuildInit == FilterIdle /\ RebuildInit /\ OffsetIdle /\ EmbedIdle /\ SearchIdle /\ ChatIdle /\ PipelineIdle /\ UploadIdle /\ SegmentIdle /\ WalkIdle /\ StitchIdle /\ BatchIdle /\ StoreIdle
SpecRebuildNext == TraverseAndProcessLeaves \/ MergeAllOrgchartData
SpecRebuild == SpecRebuildInit /\ [][SpecRebuildNext]_vars

\* one run of get_catalog.run_catalog_extraction from the parsed LLM outline
SpecOffsetInit == FilterIdle /\ OrgchartIdle /\ OffsetInit /\ EmbedIdle /\ SearchIdle /\ ChatIdle /\ PipelineIdle /\ UploadIdle /\ SegmentIdle /\ WalkIdle /\ StitchIdle /\ BatchIdle /\ StoreIdle
SpecOffsetNext == ApplyOffsetAndSave
SpecOffset == SpecOffsetInit /\ [][SpecOffsetNext]_vars

\* any sequence of runs of embedding.run_embedding_generation for one document
SpecEmbedInit == FilterIdle /\ OrgchartIdle /\ OffsetIdle /\ EmbedInit /\ SearchIdle /\ ChatIdle /\ PipelineIdle /\ UploadIdle /\ SegmentIdle /\ WalkIdle /\ StitchIdle /\ BatchIdle /\ StoreIdle
SpecEmbedNext == RunEmbeddingGeneration \/ ChangeCatalog
SpecEmbed == SpecEmbedInit /\ [][SpecEmbedNext]_vars

\* one query against the files the build left, or one call of search_in_faiss_index
SpecSearchInit == FilterIdle /\ OrgchartIdle /\ OffsetIdle /\ SearchInit /\ ChatIdle /\ PipelineIdle /\ UploadIdle /\ SegmentIdle /\ WalkIdle /\ StitchIdle /\ BatchIdle /\ StoreIdle
SpecSearchNext == FindSimilarKnowledgePoints \/ SearchInFaissIndex
SpecSearch == SpecSearchInit /\ [][SpecSearchNext]_vars

\* one chat request with its reference files
SpecChatInit == FilterIdle /\ OrgchartIdle /\ OffsetIdle /\ EmbedIdle /\ SearchIdle /\ ChatInit /\ PipelineIdle /\ UploadIdle /\ SegmentIdle /\ WalkIdle /\ StitchIdle /\ BatchIdle /\ StoreIdle
SpecChatNext == SendChatMessage
SpecChat == SpecChatInit /\ [][SpecChatNext]_vars

\* one run of the processing pipeline of an uploaded file
SpecPipelineInit == FilterIdle /\ OrgchartIdle /\ OffsetIdle /\ EmbedIdle /\ SearchIdle /\ ChatIdle /\ PipelineInit /\ UploadIdle /\ SegmentIdle /\ WalkIdle /\ StitchIdle /\ BatchIdle /\ StoreIdle
SpecPipelineNext == SkipMissingScript \/ StartScript \/ ScriptEnds \/ PipelineFinishes
SpecPipeline == SpecPipelineInit /\ [][SpecPipelineNext]_vars

\* two upload requests handled by two threads of the server
SpecUploadInit == FilterIdle /\ OrgchartIdle /\ OffsetIdle /\ EmbedIdle /\ SearchIdle /\ ChatIdle /\ PipelineIdle /\ UploadInit /\ SegmentIdle /\ WalkIdle /\ StitchIdle /\ BatchIdle /\ StoreIdle
SpecUploadNext ==
    \E r \in UploadRequests :
        UploadBegin(r) \/ UploadCheckExists(r) \/ UploadMakeDir(r) \/ UploadSaveAndLaunch(r)
SpecUpload == SpecUploadInit /\ [][SpecUploadNext]_vars

\* one traversal of get_segment.process_chapters_for_segmentation
SpecSegmentInit == FilterIdle /\ OrgchartIdle /\ OffsetIdle /\ EmbedIdle /\ SearchIdle /\ ChatIdle /\ PipelineIdle /\ UploadIdle /\ SegmentInit /\ WalkIdle /\ StitchIdle /\ BatchIdle /\ StoreIdle
SpecSegmentNext == ProcessChaptersForSegmentation
SpecSegment == SpecSegmentInit /\ [][SpecSegmentNext]_vars

\* one call of filter_textbook_orgchart, followed loop by loop
SpecWalkInit == FilterIdle /\ OrgchartIdle /\ OffsetIdle /\ EmbedIdle /\ SearchIdle /\ ChatIdle /\ PipelineIdle /\ UploadIdle /\ SegmentIdle /\ WalkInit /\ StitchIdle /\ BatchIdle /\ StoreIdle
SpecWalkNext ==
    WalkStart \/ WalkExpand \/ WalkListKept \/ WalkNextTrace \/ WalkTraceStep \/ WalkReturn
SpecWalk == SpecWalkInit /\ [][SpecWalkNext]_vars

\* the call runs on: the interpreter executes the next statement of a function
\* that has not returned
SpecWalkFair == SpecWalk /\ WF_vars(SpecWalkNext)

\* the stitching of the batch results of one run of segment.py
SpecStitchInit == FilterIdle /\ OrgchartIdle /\ OffsetIdle /\ EmbedIdle /\ SearchIdle /\ ChatIdle /\ PipelineIdle /\ UploadIdle /\ SegmentIdle /\ WalkIdle /\ StitchInit /\ BatchIdle /\ StoreIdle
SpecStitchNext == StitchBatch \/ StitchFinalCheck
SpecStitch == SpecStitchInit /\ [][SpecStitchNext]_vars

\* the batch loop of one run of segment.py
SpecBatchInit == FilterIdle /\ OrgchartIdle /\ OffsetIdle /\ EmbedIdle /\ SearchIdle /\ ChatIdle /\ PipelineIdle /\ UploadIdle /\ SegmentIdle /\ WalkIdle /\ StitchIdle /\ BatchInit /\ StoreIdle
SpecBatchNext == BatchIteration \/ BatchLoopEnds
SpecBatch == SpecBatchInit /\ [][SpecBatchNext]_vars

\* the script runs on: the API call of a batch returns or fails, and the
\* interpreter executes the next statement
SpecBatchFair == SpecBatch /\ WF_vars(SpecBatchNext)

\* a run of the server: chat requests one after another
SpecStoreInit == FilterIdle /\ OrgchartIdle /\ OffsetIdle /\ EmbedIdle /\ SearchIdle /\ ChatIdle /\ PipelineIdle /\ UploadIdle /\ SegmentIdle /\ WalkIdle /\ StitchIdle /\ BatchIdle /\ StoreInit
SpecStoreNext ==
    \E message \in RequestMessages, chat_id \in RequestChatIds, completion_raises \in BOOLEAN :
        SendChatMessageToChat(message, chat_id, completion_raises)
SpecStore == SpecStoreInit /\ [][SpecStoreNext]_vars

=============================================================================
